---- MODULE Spec2Model ----
(***************************************************************************)
(* A model of the AI Profile Picture Stylizer: the key store               *)
(* (services/keyStore.ts), the provider clients (services/geminiService.ts,*)
(* services/openrouterService.ts and its single-request variant) and the   *)
(* App coordinator (App.tsx).                                              *)
(***************************************************************************)
EXTENDS Integers, Sequences, FiniteSets, Bags, TLC

VARIABLES
  storage,        \* window.localStorage: entry name -> stored string
  inMemoryKeys,   \* keyStore.ts module variable
  inMemoryApp,    \* keyStore.ts module variable
  calls,          \* keyStore calls suspended at an await
  ret,            \* the keyStore call the last step settled, with its result
  lastSave,       \* per slot: arguments of the save call that completed last
  tampered,       \* per slot: an entry was changed from outside since then
  stylize,        \* the provider-client call under way, with its requests
  originalImageFile, originalImagePreview, generatedImageUrl, isLoading, error,
  customTheme, activeTheme, history, provider, keys, usage, editorOpen,
  editorTarget, editorImageSrc,   \* the App component's state (useState)
  generations,    \* generateStyledImage calls suspended at an await
  applying,       \* editor onApply calls suspended at dataUrlToFile
  applied,        \* the last application of a function of usage.ts
  passphrase, settingsOpen,   \* more of the App component's state
  handlers,       \* onSave and onLoad calls suspended at an await
  imgRef, mode, strokes, activeStroke, brushSize, brushColor, crop,
  draggingCrop, startDrag, renderSize,   \* the image editor's state and ref
  scale,          \* the editor's memoized scale, as the last render left it
  exported,       \* the image the editor passed to onApply last
  googleValid, openrouterValid,   \* more of the App component's state
  validations     \* the validate calls of the key effect, in the order started

storeVars == <<storage, inMemoryKeys, inMemoryApp, calls, ret, lastSave, tampered>>
settingsVars == <<passphrase, settingsOpen, handlers>>
validVars == <<googleValid, openrouterValid, validations>>
editorVars ==
  <<imgRef, mode, strokes, activeStroke, brushSize, brushColor, crop,
    draggingCrop, startDrag, renderSize, scale, exported>>

(***************************************************************************)
(* Bounds of the model.                                                    *)
(***************************************************************************)
\* keyStore calls that may be suspended at the same time
MaxCalls == 2
\* token counts and text lengths the functions of usage.ts are applied to
MaxTokens == 4
MaxTextLen == 9
\* entries of the histories the history operations are applied to
MaxEntries == 4
\* successful generations in a row
MaxGenerated == 2
\* entries the history may grow to
MaxHistory == 1
\* points of all the strokes the editor holds, the one being drawn included
MaxPoints == 2
\* validations of the OpenRouter key started
MaxValidations == 3

(***************************************************************************)
(* JavaScript values.                                                      *)
(***************************************************************************)
JNull == [t |-> "null"]
JUndef == [t |-> "undefined"]
JStr(s) == [t |-> "string", s |-> s]
JRaw(x) == [t |-> "value", x |-> x]
JObj(o) == [t |-> "object", o |-> o]

\* reading property f of value v (v.f in JavaScript)
Prop(v, f) ==
  IF v.t = "object" /\ f \in DOMAIN v.o THEN v.o[f] ELSE JUndef

\* two StoredKeys values agree on both optional properties
SameKeys(a, b) ==
  /\ a.t = "object" /\ b.t = "object"
  /\ \A f \in {"google", "openrouter"} : Prop(a, f) = Prop(b, f)

\* a ?? b
Nullish(a, b) == IF a.t \in {"null", "undefined"} THEN b ELSE a

\* JSON.stringify: properties whose value is undefined are left out
JSONstringify(v) ==
  IF v.t = "object"
  THEN [text |-> "json-object",
        o |-> [f \in {g \in DOMAIN v.o : v.o[g].t # "undefined"} |-> v.o[f]]]
  ELSE IF v.t = "null"
  THEN [text |-> "json-null", o |-> <<>>]
  \* JSON.stringify(undefined) is undefined, which encodes to no bytes
  ELSE [text |-> "", o |-> <<>>]

\* JSON.parse: throws on a text that is not JSON
JSONparse(text) ==
  CASE text.text = "json-object" -> [ok |-> TRUE, v |-> JObj(text.o)]
    [] text.text = "json-null"   -> [ok |-> TRUE, v |-> JNull]
    [] OTHER                     -> [ok |-> FALSE, v |-> JUndef]

\* TextEncoder.encode / TextDecoder.decode
TextEncode(text) == [utf8 |-> text]
TextDecode(bytes) == bytes.utf8

(***************************************************************************)
(* localStorage strings.                                                   *)
(***************************************************************************)
Absent == [k |-> "absent"]        \* getItem returns null
EmptyString == [k |-> "empty"]
Garbage == [k |-> "garbage"]      \* a string that is not base64

bufferToBase64(buf) == [k |-> "b64", v |-> buf]

\* atob throws on a string that is not base64
base64ToBuffer(str) ==
  IF str.k = "b64" THEN [ok |-> TRUE, v |-> str.v] ELSE [ok |-> FALSE, v |-> <<>>]

\* !str for a value read with getItem
Falsy(str) == str.k \in {"absent", "empty"}

STORAGE_KEYS ==
  [encrypted |-> "aps.keys.encrypted", iv |-> "aps.keys.iv",
   salt |-> "aps.keys.salt", provider |-> "aps.provider",
   appEnc |-> "aps.app.encrypted", appIv |-> "aps.app.iv",
   appSalt |-> "aps.app.salt"]

StorageNames == {STORAGE_KEYS[f] : f \in DOMAIN STORAGE_KEYS}

KeySlot == {STORAGE_KEYS.encrypted, STORAGE_KEYS.iv, STORAGE_KEYS.salt}
AppSlot == {STORAGE_KEYS.appEnc, STORAGE_KEYS.appIv, STORAGE_KEYS.appSalt}

(***************************************************************************)
(* Web Crypto: PBKDF2 key derivation and AES-GCM.                          *)
(***************************************************************************)
\* Salt and nonce values.  Each slot and each suspended save holds at most
\* one, so one more than that always leaves a value nobody holds.
Nonces == 0..(MaxCalls + 2)

\* the 16 salt bytes and the 12 nonce bytes a save call draws
SaltBytes(n) == [bytes |-> "salt", n |-> n]
IvBytes(n) == [bytes |-> "iv", n |-> n]

\* PBKDF2 is a function of passphrase and salt
deriveKey(pass, salt) == [pass |-> pass, salt |-> salt]

\* crypto.subtle.encrypt with AES-GCM: ciphertext with its authentication tag
Encrypt(key, iv, plain) == [key |-> key, iv |-> iv, plain |-> plain, tag |-> "ok"]

\* crypto.subtle.decrypt rejects unless key, nonce and tag match
Decrypt(key, iv, ct) ==
  IF ct.tag = "ok" /\ ct.key = key /\ ct.iv = iv
  THEN [ok |-> TRUE, plain |-> ct.plain]
  ELSE [ok |-> FALSE, plain |-> TextEncode(JSONstringify(JUndef))]

(***************************************************************************)
(* Inputs.                                                                 *)
(***************************************************************************)
\* "" stands for an absent passphrase as well: both are falsy
Passphrases == {"", "p1", "p2"}

KeysValues ==
  { JObj([google |-> JStr("g1"), openrouter |-> JStr("")]),
    JObj([google |-> JUndef, openrouter |-> JStr("o2")]) }

AppValues ==
  { JNull, JUndef, JObj([history |-> JRaw(<<"img">>), usage |-> JRaw(1)]) }

(***************************************************************************)
(* keyStore.ts: the state of a call and of its result.                     *)
(*                                                                         *)
(* A call with a passphrase suspends at await deriveKey(...) and again at  *)
(* await crypto.subtle.encrypt/decrypt(...).  Between the two awaits it    *)
(* touches neither localStorage nor a module variable, so the model keeps  *)
(* one suspended state per call.  What a suspended load goes on to compute *)
(* depends only on its passphrase and on the three strings it has read, so *)
(* the suspended load carries that value.                                  *)
(***************************************************************************)
\* the suspended calls form a bag: calls are told apart by what they hold
Suspended == BagToSet(calls)

CanSuspend == BagCardinality(calls) < MaxCalls

Suspend(c) == calls (+) SetToBag({c})
Resume(c) == calls (-) SetToBag({c})

\* salt and nonce values some entry or suspended save holds
UsedNonces ==
  {storage[n].v.n : n \in {m \in {STORAGE_KEYS.iv, STORAGE_KEYS.salt,
                                 STORAGE_KEYS.appIv, STORAGE_KEYS.appSalt} :
                          storage[m].k = "b64"}}
  \cup {c.n : c \in {d \in Suspended : d.fn \in {"saveKeys", "saveAppData"}}}

\* crypto.getRandomValues: 16 (12) random bytes, equal to no value that is
\* held anywhere.  Only equality of these values is ever observed, so the
\* least value nobody holds stands for all of them.
FreshNonce == CHOOSE n \in Nonces \ UsedNonces : \A m \in Nonces \ UsedNonces : n <= m

NoSave == [any |-> FALSE, pass |-> "", data |-> JNull]

\* what is known of the three strings a load has read: whether decryption
\* with the load's passphrase can succeed, and the save that wrote them
NoRead == [cannot |-> FALSE, wrote |-> NoSave]

Settled(fn, pass, data, threw, val, read) ==
  [fn |-> fn, pass |-> pass, data |-> data, threw |-> threw,
   val |-> val, read |-> read]

\* no call settled in the step just taken
NoRet == Settled("none", "", JUndef, FALSE, JUndef, NoRead)

removeItems(st, names) == [n \in StorageNames |-> IF n \in names THEN Absent ELSE st[n]]

setItem(st, name, str) == [st EXCEPT ![name] = str]

\* the try block of loadKeys and loadAppData: the parsed value, or the throw
\* that its catch turns into null
Decoded(pass, enc, ivb64, saltb64) ==
  IF ~base64ToBuffer(ivb64).ok \/ ~base64ToBuffer(saltb64).ok
     \/ ~base64ToBuffer(enc).ok
  THEN [ok |-> FALSE, v |-> JUndef]
  ELSE LET iv == base64ToBuffer(ivb64).v
           salt == base64ToBuffer(saltb64).v
           key == deriveKey(pass, salt)
           decrypted == Decrypt(key, iv, base64ToBuffer(enc).v)
       IN IF decrypted.ok
          THEN JSONparse(TextDecode(decrypted.plain))
          ELSE [ok |-> FALSE, v |-> JUndef]

\* the three strings are not what one save call wrote under this passphrase
CannotDecrypt(pass, enc, ivb64, saltb64) ==
  \/ enc.k # "b64" \/ ivb64.k # "b64" \/ saltb64.k # "b64"
  \/ enc.v.tag # "ok"
  \/ enc.v.iv # ivb64.v
  \/ enc.v.key.salt # saltb64.v
  \/ enc.v.key.pass # pass

(***************************************************************************)
(* keyStore.ts: saveKeys and loadKeys.                                     *)
(***************************************************************************)
\* saveKeys without passphrase that leaves the salt entry behind
SaveKeysPlainKeepsSalt(stored) ==
  /\ inMemoryKeys' = stored
  /\ storage' = removeItems(storage, {STORAGE_KEYS.encrypted, STORAGE_KEYS.iv})
  /\ ret' = Settled("saveKeys", "", stored, FALSE, JUndef, NoRead)
  /\ lastSave' = [lastSave EXCEPT !.keys = [any |-> TRUE, pass |-> "", data |-> stored]]
  /\ tampered' = [tampered EXCEPT !.keys = FALSE]
  /\ UNCHANGED <<inMemoryApp, calls>>

\* saveKeys without passphrase: the whole call, it never suspends
SaveKeysPlain(stored) ==
  /\ inMemoryKeys' = stored
  /\ storage' = removeItems(storage, KeySlot)
  /\ ret' = Settled("saveKeys", "", stored, FALSE, JUndef, NoRead)
  /\ lastSave' = [lastSave EXCEPT !.keys = [any |-> TRUE, pass |-> "", data |-> stored]]
  /\ tampered' = [tampered EXCEPT !.keys = FALSE]
  /\ UNCHANGED <<inMemoryApp, calls>>

\* saveKeys with passphrase, up to its first await
SaveKeysBegin(stored, pass) ==
  /\ CanSuspend
  /\ calls' = Suspend([fn |-> "saveKeys", data |-> stored, pass |-> pass,
                        n |-> FreshNonce])
  /\ ret' = NoRet /\ UNCHANGED <<storage, inMemoryKeys, inMemoryApp, lastSave, tampered>>

saveKeys(stored, pass) ==
  IF pass = "" THEN SaveKeysPlain(stored) ELSE SaveKeysBegin(stored, pass)

\* the nonce stored under the salt's name and the salt under the nonce's
SaveKeysStoredSwapped(st, ciphertext, iv, salt) ==
  setItem(setItem(setItem(st,
    STORAGE_KEYS.encrypted, bufferToBase64(ciphertext)),
    STORAGE_KEYS.iv, bufferToBase64(salt)),
    STORAGE_KEYS.salt, bufferToBase64(iv))

\* the nonce stored under the application slot's name
SaveKeysStoredWrongSlot(st, ciphertext, iv, salt) ==
  setItem(setItem(setItem(st,
    STORAGE_KEYS.encrypted, bufferToBase64(ciphertext)),
    STORAGE_KEYS.appIv, bufferToBase64(iv)),
    STORAGE_KEYS.salt, bufferToBase64(salt))

\* what the three setItem calls of saveKeys leave in localStorage
SaveKeysStored(st, ciphertext, iv, salt) ==
  setItem(setItem(setItem(st,
    STORAGE_KEYS.encrypted, bufferToBase64(ciphertext)),
    STORAGE_KEYS.iv, bufferToBase64(iv)),
    STORAGE_KEYS.salt, bufferToBase64(salt))

\* encrypt resolved: the three writes, and the call completes
SaveKeysWrite(c) ==
  /\ c \in Suspended /\ c.fn = "saveKeys"
  /\ LET salt == SaltBytes(c.n)
         iv == IvBytes(c.n)
         key == deriveKey(c.pass, salt)
         plaintext == JSONstringify(c.data)
         ciphertext == Encrypt(key, iv, TextEncode(plaintext))
     IN /\ storage' = SaveKeysStored(storage, ciphertext, iv, salt)
        /\ inMemoryKeys' = c.data
        /\ ret' = Settled("saveKeys", c.pass, c.data, FALSE, JUndef, NoRead)
        /\ lastSave' = [lastSave EXCEPT !.keys =
                          [any |-> TRUE, pass |-> c.pass, data |-> c.data]]
  /\ tampered' = [tampered EXCEPT !.keys = FALSE]
  /\ calls' = Resume(c)
  /\ UNCHANGED inMemoryApp

\* loadKeys without passphrase returns the module variable
LoadKeysPlain ==
  /\ ret' = Settled("loadKeys", "", JUndef, FALSE, inMemoryKeys, NoRead)
  /\ UNCHANGED <<storage, inMemoryKeys, inMemoryApp, calls, lastSave, tampered>>

\* loadKeys with passphrase: the three reads, then null at once or the first
\* await of the try block
LoadKeysBegin(pass) ==
  LET enc == storage[STORAGE_KEYS.encrypted]
      ivb64 == storage[STORAGE_KEYS.iv]
      saltb64 == storage[STORAGE_KEYS.salt]
      read == [cannot |-> CannotDecrypt(pass, enc, ivb64, saltb64),
               wrote |-> IF tampered.keys THEN NoSave ELSE lastSave.keys]
  IN IF Falsy(enc) \/ Falsy(ivb64) \/ Falsy(saltb64)
     THEN /\ ret' = Settled("loadKeys", pass, JUndef, FALSE, JNull, read)
          /\ UNCHANGED <<storage, inMemoryKeys, inMemoryApp, calls, lastSave, tampered>>
     ELSE /\ CanSuspend
          /\ calls' = Suspend([fn |-> "loadKeys", pass |-> pass,
                                 parsed |-> Decoded(pass, enc, ivb64, saltb64),
                                 read |-> read])
          /\ ret' = NoRet /\ UNCHANGED <<storage, inMemoryKeys, inMemoryApp, lastSave, tampered>>

loadKeys(pass) ==
  IF pass = "" THEN LoadKeysPlain ELSE LoadKeysBegin(pass)

\* loadKeys without its catch: a failed decryption rejects the call
LoadKeysFinishNoCatch(c) ==
  /\ c \in Suspended /\ c.fn = "loadKeys"
  /\ LET parsed == c.parsed
     IN IF parsed.ok
        THEN /\ inMemoryKeys' = parsed.v
             /\ ret' = Settled("loadKeys", c.pass, JUndef, FALSE, parsed.v, c.read)
        ELSE /\ inMemoryKeys' = inMemoryKeys
             /\ ret' = Settled("loadKeys", c.pass, JUndef, TRUE, JUndef, c.read)
  /\ calls' = Resume(c)
  /\ UNCHANGED <<storage, inMemoryApp, lastSave, tampered>>

\* the try block is over: the parsed value is cached and returned, or the
\* catch returns null
LoadKeysFinish(c) ==
  /\ c \in Suspended /\ c.fn = "loadKeys"
  /\ LET parsed == c.parsed
     IN IF parsed.ok
        THEN /\ inMemoryKeys' = parsed.v
             /\ ret' = Settled("loadKeys", c.pass, JUndef, FALSE, parsed.v,
                               c.read)
        ELSE /\ inMemoryKeys' = inMemoryKeys
             /\ ret' = Settled("loadKeys", c.pass, JUndef, FALSE, JNull,
                               c.read)
  /\ calls' = Resume(c)
  /\ UNCHANGED <<storage, inMemoryApp, lastSave, tampered>>

(***************************************************************************)
(* keyStore.ts: saveAppData and loadAppData.                               *)
(***************************************************************************)
\* saveAppData without passphrase: the whole call, it never suspends
SaveAppDataPlain(data) ==
  /\ inMemoryApp' = data
  /\ storage' = removeItems(storage, AppSlot)
  /\ ret' = Settled("saveAppData", "", data, FALSE, JUndef, NoRead)
  /\ lastSave' = [lastSave EXCEPT !.app = [any |-> TRUE, pass |-> "", data |-> data]]
  /\ tampered' = [tampered EXCEPT !.app = FALSE]
  /\ UNCHANGED <<inMemoryKeys, calls>>

\* saveAppData with passphrase, up to its first await
SaveAppDataBegin(data, pass) ==
  /\ CanSuspend
  /\ calls' = Suspend([fn |-> "saveAppData", data |-> data, pass |-> pass,
                        n |-> FreshNonce])
  /\ ret' = NoRet /\ UNCHANGED <<storage, inMemoryKeys, inMemoryApp, lastSave, tampered>>

saveAppData(data, pass) ==
  IF pass = "" THEN SaveAppDataPlain(data) ELSE SaveAppDataBegin(data, pass)

\* the nonce is not written
SaveAppDataStoredNoIv(st, ciphertext, iv, salt) ==
  setItem(setItem(st,
    STORAGE_KEYS.appEnc, bufferToBase64(ciphertext)),
    STORAGE_KEYS.appSalt, bufferToBase64(salt))

\* what the three setItem calls of saveAppData leave in localStorage
SaveAppDataStored(st, ciphertext, iv, salt) ==
  setItem(setItem(setItem(st,
    STORAGE_KEYS.appEnc, bufferToBase64(ciphertext)),
    STORAGE_KEYS.appIv, bufferToBase64(iv)),
    STORAGE_KEYS.appSalt, bufferToBase64(salt))

\* the text saveAppData encrypts: JSON.stringify(data ?? {})
AppPlaintext(data) == JSONstringify(Nullish(data, JObj(<<>>)))

\* saveAppData with passphrase that leaves the module variable as it was
SaveAppDataWriteNoCache(c) ==
  /\ c \in Suspended /\ c.fn = "saveAppData"
  /\ LET salt == SaltBytes(c.n)
         iv == IvBytes(c.n)
         key == deriveKey(c.pass, salt)
         plaintext == AppPlaintext(c.data)
         ciphertext == Encrypt(key, iv, TextEncode(plaintext))
     IN /\ storage' = SaveAppDataStored(storage, ciphertext, iv, salt)
        /\ ret' = Settled("saveAppData", c.pass, c.data, FALSE, JUndef, NoRead)
        /\ lastSave' = [lastSave EXCEPT !.app =
                          [any |-> TRUE, pass |-> c.pass, data |-> c.data]]
  /\ tampered' = [tampered EXCEPT !.app = FALSE]
  /\ calls' = Resume(c)
  /\ UNCHANGED <<inMemoryKeys, inMemoryApp>>

\* encrypt resolved: the three writes, and the call completes
SaveAppDataWrite(c) ==
  /\ c \in Suspended /\ c.fn = "saveAppData"
  /\ LET salt == SaltBytes(c.n)
         iv == IvBytes(c.n)
         key == deriveKey(c.pass, salt)
         plaintext == AppPlaintext(c.data)
         ciphertext == Encrypt(key, iv, TextEncode(plaintext))
     IN /\ storage' = SaveAppDataStored(storage, ciphertext, iv, salt)
        /\ inMemoryApp' = c.data
        /\ ret' = Settled("saveAppData", c.pass, c.data, FALSE, JUndef, NoRead)
        /\ lastSave' = [lastSave EXCEPT !.app =
                          [any |-> TRUE, pass |-> c.pass, data |-> c.data]]
  /\ tampered' = [tampered EXCEPT !.app = FALSE]
  /\ calls' = Resume(c)
  /\ UNCHANGED inMemoryKeys

\* loadAppData without passphrase returns the module variable
LoadAppDataPlain ==
  /\ ret' = Settled("loadAppData", "", JUndef, FALSE, inMemoryApp, NoRead)
  /\ UNCHANGED <<storage, inMemoryKeys, inMemoryApp, calls, lastSave, tampered>>

\* loadAppData with passphrase: the three reads, then null at once or the
\* first await of the try block
LoadAppDataBegin(pass) ==
  LET enc == storage[STORAGE_KEYS.appEnc]
      ivb64 == storage[STORAGE_KEYS.appIv]
      saltb64 == storage[STORAGE_KEYS.appSalt]
      read == [cannot |-> CannotDecrypt(pass, enc, ivb64, saltb64),
               wrote |-> IF tampered.app THEN NoSave ELSE lastSave.app]
  IN IF Falsy(enc) \/ Falsy(ivb64) \/ Falsy(saltb64)
     THEN /\ ret' = Settled("loadAppData", pass, JUndef, FALSE, JNull, read)
          /\ UNCHANGED <<storage, inMemoryKeys, inMemoryApp, calls, lastSave, tampered>>
     ELSE /\ CanSuspend
          /\ calls' = Suspend([fn |-> "loadAppData", pass |-> pass,
                                 parsed |-> Decoded(pass, enc, ivb64, saltb64),
                                 read |-> read])
          /\ ret' = NoRet /\ UNCHANGED <<storage, inMemoryKeys, inMemoryApp, lastSave, tampered>>

loadAppData(pass) ==
  IF pass = "" THEN LoadAppDataPlain ELSE LoadAppDataBegin(pass)

\* loadAppData whose catch clears the module variable
LoadAppDataFinishClears(c) ==
  /\ c \in Suspended /\ c.fn = "loadAppData"
  /\ LET parsed == c.parsed
     IN IF parsed.ok
        THEN /\ inMemoryApp' = parsed.v
             /\ ret' = Settled("loadAppData", c.pass, JUndef, FALSE, parsed.v,
                               c.read)
        ELSE /\ inMemoryApp' = JNull
             /\ ret' = Settled("loadAppData", c.pass, JUndef, FALSE, JNull,
                               c.read)
  /\ calls' = Resume(c)
  /\ UNCHANGED <<storage, inMemoryKeys, lastSave, tampered>>

\* the try block is over: the parsed value is cached and returned, or the
\* catch returns null
LoadAppDataFinish(c) ==
  /\ c \in Suspended /\ c.fn = "loadAppData"
  /\ LET parsed == c.parsed
     IN IF parsed.ok
        THEN /\ inMemoryApp' = parsed.v
             /\ ret' = Settled("loadAppData", c.pass, JUndef, FALSE, parsed.v,
                               c.read)
        ELSE /\ inMemoryApp' = inMemoryApp
             /\ ret' = Settled("loadAppData", c.pass, JUndef, FALSE, JNull,
                               c.read)
  /\ calls' = Resume(c)
  /\ UNCHANGED <<storage, inMemoryKeys, lastSave, tampered>>

(***************************************************************************)
(* keyStore.ts: the provider selection.                                    *)
(***************************************************************************)
Providers == {"google", "openrouter"}

\* getProvider: anything but the stored string 'openrouter' reads as google
getProvider ==
  IF storage[STORAGE_KEYS.provider].k = "str"
     /\ storage[STORAGE_KEYS.provider].v = "openrouter"
  THEN "openrouter" ELSE "google"

setProvider(p) ==
  /\ storage' = setItem(storage, STORAGE_KEYS.provider, [k |-> "str", v |-> p])
  /\ ret' = NoRet
  /\ UNCHANGED <<inMemoryKeys, inMemoryApp, calls, lastSave, tampered>>

(***************************************************************************)
(* The environment of the key store.                                       *)
(***************************************************************************)
SlotOf(name) == IF name \in KeySlot THEN "keys" ELSE "app"

\* the bytes of an entry changed: a ciphertext fails its tag, a salt or
\* nonce is another value
Flipped(name, str) ==
  IF name \in {STORAGE_KEYS.encrypted, STORAGE_KEYS.appEnc}
  THEN bufferToBase64([str.v EXCEPT !.tag = "bad"])
  ELSE bufferToBase64([str.v EXCEPT !.bytes = "changed"])

TamperKinds == {"remove", "empty", "garbage", "flip"}

\* an entry of a slot is removed, emptied or overwritten from outside the
\* program (devtools, another program on the origin, a damaged profile)
Tamper(name, how) ==
  /\ storage[name].k = "b64"
  /\ ~tampered[SlotOf(name)]
  /\ storage' = [storage EXCEPT ![name] =
                   CASE how = "remove"  -> Absent
                     [] how = "empty"   -> EmptyString
                     [] how = "garbage" -> Garbage
                     [] OTHER           -> Flipped(name, storage[name])]
  /\ tampered' = [tampered EXCEPT ![SlotOf(name)] = TRUE]
  /\ ret' = NoRet
  /\ UNCHANGED <<inMemoryKeys, inMemoryApp, calls, lastSave>>

\* the page is loaded again: module variables start over, suspended calls
\* are gone, localStorage stays
Reload ==
  /\ inMemoryKeys' = JNull
  /\ inMemoryApp' = JNull
  /\ calls' = EmptyBag
  /\ ret' = NoRet
  /\ UNCHANGED <<storage, lastSave, tampered>>

InitStore ==
  /\ storage = [n \in StorageNames |-> Absent]
  /\ inMemoryKeys = JNull
  /\ inMemoryApp = JNull
  /\ calls = EmptyBag
  /\ ret = NoRet
  /\ lastSave = [keys |-> NoSave, app |-> NoSave]
  /\ tampered = [keys |-> FALSE, app |-> FALSE]

(***************************************************************************)
(* The provider clients: stylizeImage of services/geminiService.ts and the *)
(* two versions of stylizeImageOpenRouter, the one of                      *)
(* services/openrouterService.ts with the JSON fallback request and the    *)
(* single-request one.  A call is a record: its arguments, the requests it *)
(* has issued, the answers it has received and how it settled.             *)
(***************************************************************************)
Impls == {"gemini", "simple", "fallback"}

\* credentials: the empty string is the missing credential
ApiKeys == {"", "k"}

\* image data arguments: a base64 string and one atob cannot decode (what
\* extractBase64 yields for the data URL "data:" of an empty file)
Base64Inputs == {"aGk=", "undefined"}
atobOk(s) == s = "aGk="

\* a thrown Error; its message is kept as the parts of the template string
Error(message) == [name |-> "Error", message |-> message]
Message(text) == [text |-> text]

MissingGeminiKey == Error(Message("Missing Google Gemini API key. Please add it in Settings."))
MissingOpenRouterKey == Error(Message("Missing OpenRouter API key. Please add it in Settings."))
InvalidCharacterError == [name |-> "InvalidCharacterError", message |-> Message("not correctly encoded")]
FetchFailed == [name |-> "TypeError", message |-> Message("Failed to fetch")]
JsonSyntaxError == [name |-> "SyntaxError", message |-> Message("Unexpected token")]
RequestFailed(text, res, body) ==
  Error([text |-> text, status |-> res.status, statusText |-> res.statusText,
         body |-> body])
NoImage(text) == Error(Message(text))

\* what fetch may settle with: a rejection, or a Response with a status and
\* a body that is JSON text, other text, or a stream that fails while read
HttpStatuses == {200, 400, 405, 415, 500}
ImageShapes ==
  [data0 : {JUndef, JStr(""), JStr("d")},
   images0 : {JUndef, JStr(""), JStr("i")},
   output : {JUndef, JStr(""), JStr("o")}]
JsonBody(shape) == [kind |-> "json", v |-> shape]
TextBody(text) == [kind |-> "text", text |-> text]
BrokenBody == [kind |-> "broken"]
Response(status, body) ==
  [net |-> "response", status |-> status, statusText |-> "", body |-> body]
ok(res) == res.status >= 200 /\ res.status <= 299
FetchRejects == [net |-> "rejects"]
FetchOutcomes ==
  {FetchRejects}
  \cup {Response(200, JsonBody(s)) : s \in ImageShapes}
  \cup {Response(200, TextBody("<html>"))}
  \cup {Response(s, b) : s \in HttpStatuses \ {200}, b \in {TextBody("denied"), BrokenBody}}

\* res.text(): the body's text, or a rejection
text(res) ==
  CASE res.body.kind = "json" -> [ok |-> TRUE, v |-> "json-text"]
    [] res.body.kind = "text" -> [ok |-> TRUE, v |-> res.body.text]
    [] OTHER -> [ok |-> FALSE, v |-> ""]

\* res.json(): the parsed body, or a rejection
json(res) ==
  IF res.body.kind = "json" THEN [ok |-> TRUE, v |-> res.body.v]
  ELSE [ok |-> FALSE, v |-> JUndef]

\* a JavaScript value in a condition
Truthy(v) == v.t = "string" /\ v.s # ""

\* the three candidates in the order the code tries them
Candidate(data) ==
  IF Truthy(data.data0) THEN [found |-> TRUE, v |-> data.data0.s]
  ELSE IF Truthy(data.images0) THEN [found |-> TRUE, v |-> data.images0.s]
  ELSE IF Truthy(data.output) THEN [found |-> TRUE, v |-> data.output.s]
  ELSE [found |-> FALSE, v |-> ""]

\* what generateContent of the SDK may settle with: a rejection, with or
\* without a message, or a response
SdkOutcomes ==
  {[net |-> "rejects", message |-> Message(m)] : m \in {"", "quota exceeded"}}
  \cup [net : {"response"}, image : {JUndef, JStr("g")}, unsafe : BOOLEAN,
        finishReason : {"", "STOP", "MAX_TOKENS"}]

\* a request as the network sees it
Request(format) == [format |-> format, completed |-> FALSE]
Complete(requests) ==
  [i \in DOMAIN requests |-> [requests[i] EXCEPT !.completed = TRUE]]

\* how far a call is
Pending == [kind |-> "pending"]
Returned(v) == [kind |-> "returned", v |-> v]
Threw(e) == [kind |-> "threw", e |-> e]
NoCall ==
  [impl |-> "none", apiKey |-> "", base64ImageData |-> "", requests |-> <<>>,
   answers |-> <<>>, outcome |-> Pending]
NewCall(impl, base64ImageData, apiKey) ==
  [NoCall EXCEPT !.impl = impl, !.apiKey = apiKey,
                 !.base64ImageData = base64ImageData]
Settle(call, outcome) ==
  [call EXCEPT !.outcome = outcome, !.requests = Complete(call.requests)]
Fetch(call, format) ==
  [call EXCEPT !.requests = Append(Complete(call.requests), Request(format))]
Outstanding(call) == call.impl # "none" /\ call.outcome = Pending

\* --- stylizeImage (Gemini) ---
\* the catch of stylizeImage: a new Error with the message of the caught one
GeminiRethrow(caught) ==
  Error(IF caught.message.text # "" THEN caught.message
        ELSE Message("An unexpected error occurred while contacting the AI service."))

\* stylizeImage without its check of the key
stylizeImageUnchecked(base64ImageData, apiKey) ==
  Fetch(NewCall("gemini", base64ImageData, apiKey), "generateContent")

\* from the call to the await of generateContent
stylizeImage(base64ImageData, apiKey) ==
  LET call == NewCall("gemini", base64ImageData, apiKey)
  IN IF apiKey = "" THEN Settle(call, Threw(GeminiRethrow(MissingGeminiKey)))
     ELSE Fetch(call, "generateContent")

\* the try block after generateContent has resolved with response
GeminiResult(response) ==
  IF response.image # JUndef THEN Returned(response.image.s)
  ELSE IF response.unsafe
    THEN Threw(Error(Message("Image generation was blocked due to safety concerns. Please try a different image or prompt.")))
  ELSE IF response.finishReason # "" /\ response.finishReason # "STOP"
    THEN Threw(Error([text |-> "Image generation failed. Reason: . Please try again.",
                      finishReason |-> response.finishReason]))
  ELSE Threw(Error(Message("The AI did not return an image. Please try a different theme or upload another picture.")))

\* from the settling of generateContent to the end of the call
stylizeImageResume(call, r) ==
  LET result == IF r.net = "rejects" THEN Threw(Error(r.message))
                ELSE GeminiResult(r)
  IN Settle([call EXCEPT !.answers = Append(@, r)],
            IF result.kind = "threw" THEN Threw(GeminiRethrow(result.e))
            ELSE result)

\* --- stylizeImageOpenRouter, the single-request version ---
\* from the call to the await of fetch
stylizeImageOpenRouterSimple(base64ImageData, apiKey) ==
  LET call == NewCall("simple", base64ImageData, apiKey)
  IN IF apiKey = "" THEN Settle(call, Threw(MissingOpenRouterKey))
     ELSE IF ~atobOk(base64ImageData) THEN Settle(call, Threw(InvalidCharacterError))
     ELSE Fetch(call, "multipart")

\* a success response: the parsed body's candidates, or the no-image error
ImageOf(res, noImage) ==
  IF ~json(res).ok THEN Threw(JsonSyntaxError)
  ELSE LET candidate == Candidate(json(res).v)
       IN IF candidate.found THEN Returned(candidate.v)
          ELSE Threw(NoImage(noImage))

\* res.text().catch(() => '')
TextOrEmpty(res) == IF text(res).ok THEN text(res).v ELSE ""

\* from the settling of fetch to the end of the call
SimpleResult(r) ==
  IF r.net = "rejects" THEN Threw(FetchFailed)
  ELSE IF ~ok(r)
    THEN Threw(RequestFailed("OpenRouter request failed:", r, TextOrEmpty(r)))
  ELSE ImageOf(r, "OpenRouter did not return an image. Please try a different prompt or image.")

\* the single-request client trying once more after a failed fetch
SimpleResumeRetry(call, r) ==
  IF r.net = "rejects" /\ Len(call.requests) < 2
  THEN Fetch([call EXCEPT !.answers = Append(@, r)], "multipart")
  ELSE Settle([call EXCEPT !.answers = Append(@, r)], SimpleResult(r))

stylizeImageOpenRouterSimpleResume(call, r) ==
  Settle([call EXCEPT !.answers = Append(@, r)], SimpleResult(r))

\* --- stylizeImageOpenRouter of services/openrouterService.ts ---
\* the part of the try block after the first fetch has settled: a return, a
\* throw, or the end of the block reached ("through")
MultipartResult(r) ==
  IF r.net = "rejects" THEN Threw(FetchFailed)
  ELSE IF ok(r)
    THEN ImageOf(r, "OpenRouter did not return an image. Please try a different prompt or image.")
  ELSE IF r.status # 405 /\ r.status # 415 /\ r.status # 400
    THEN Threw(RequestFailed("OpenRouter request failed:", r, TextOrEmpty(r)))
  ELSE [kind |-> "through"]

\* the catch block of the first attempt: it is empty, whatever was thrown in
\* the try block the function goes on to the JSON request
CaughtMultipart(result) ==
  IF result.kind = "threw" THEN [kind |-> "through"] ELSE result

\* from the call to the first await of fetch: atob throws inside the try block
stylizeImageOpenRouter(base64ImageData, apiKey) ==
  LET call == NewCall("fallback", base64ImageData, apiKey)
      attempt == IF atobOk(base64ImageData) THEN Pending
                 ELSE CaughtMultipart(Threw(InvalidCharacterError))
  IN IF apiKey = "" THEN Settle(call, Threw(MissingOpenRouterKey))
     ELSE IF attempt.kind = "through" THEN Fetch(call, "json")
     ELSE Fetch(call, "multipart")

\* the JSON request has settled
JsonResult(r) ==
  IF r.net = "rejects" THEN Threw(FetchFailed)
  ELSE IF ~ok(r)
    THEN Threw(RequestFailed("OpenRouter request failed (json):", r, TextOrEmpty(r)))
  ELSE ImageOf(r, "OpenRouter did not return an image (json). Please try a different prompt or image.")

\* a fetch of the call has settled: the call returns, throws or goes on to
\* the JSON request
stylizeImageOpenRouterResume(call, r) ==
  LET answered == [call EXCEPT !.answers = Append(@, r)]
      last == call.requests[Len(call.requests)]
      result == IF last.format = "multipart" THEN CaughtMultipart(MultipartResult(r))
                ELSE JsonResult(r)
  IN IF result.kind = "through" THEN Fetch(answered, "json")
     ELSE Settle(answered, result)

\* --- one client call at a time, answered by the network ---
StartCall(impl, base64ImageData, apiKey) ==
  CASE impl = "gemini" -> stylizeImage(base64ImageData, apiKey)
    [] impl = "simple" -> stylizeImageOpenRouterSimple(base64ImageData, apiKey)
    [] OTHER -> stylizeImageOpenRouter(base64ImageData, apiKey)

ResumeCall(call, r) ==
  CASE call.impl = "gemini" -> stylizeImageResume(call, r)
    [] call.impl = "simple" -> stylizeImageOpenRouterSimpleResume(call, r)
    [] OTHER -> stylizeImageOpenRouterResume(call, r)

OutcomesFor(call) == IF call.impl = "gemini" THEN SdkOutcomes ELSE FetchOutcomes

Stylize(impl, base64ImageData, apiKey) ==
  /\ ~Outstanding(stylize)
  /\ stylize' = StartCall(impl, base64ImageData, apiKey)

Answer(r) ==
  /\ Outstanding(stylize)
  /\ stylize' = ResumeCall(stylize, r)

InitClient == stylize = NoCall

(***************************************************************************)
(* The App coordinator (App.tsx): the component's state, one action for    *)
(* every event handler and one for every continuation of an async handler. *)
(* A discrete event's state updates are rendered before the next event is  *)
(* dispatched, so a handler sees, and a control's disabled attribute       *)
(* reflects, the state the step before left.                               *)
(***************************************************************************)
\* the files a user may select: a picture and an empty file
Files == {[name |-> "me.png", size |-> 2], [name |-> "empty.png", size |-> 0]}
EditedFile(url) == [name |-> "edited-input.png", size |-> 2]

\* URL.createObjectURL(file)
createObjectURL(file) == [url |-> "blob", of |-> file.name]
\* the data URL the editor exports
EditorUrls == {[url |-> "data", header |-> "data:image/png;base64", data |-> "ZWRpdA=="]}

\* FileReader.readAsDataURL: the data URL of the file's bytes; for a file of
\* no bytes "data:", without a comma
readAsDataURL(file) ==
  IF file.size = 0 THEN [url |-> "data", header |-> "data:", data |-> JUndef]
  ELSE [url |-> "data", header |-> "data:image/png;base64", data |-> JStr("aGk=")]

\* extractBase64: the part after the comma, undefined where there is none
extractBase64(dataUrl) == dataUrl.data

\* a string parameter given an undefined argument
String(v) == IF v = JUndef THEN "undefined" ELSE v.s

\* the themes of constants.ts and the texts typed in the custom-theme input
THEMES == {"Anime"}
CustomThemes == {"", " ", "Retro "}
trim(s) == CASE s = " " -> "" [] s = "Retro " -> "Retro" [] OTHER -> s

\* the length of the prompt: the theme between two fixed texts of 37 and
\* 155 characters
ThemeLen(theme) == IF theme \in {"Anime", "Retro"} THEN 5 ELSE 9
PromptLen(theme) == 37 + ThemeLen(theme) + 155

\* usage.ts; costUSD is kept in millionths of a dollar, the six decimals of
\* toFixed(6), and the prices in hundredths of a millionth per token
PRICE_IN_PER_MILLION == 30
PRICE_OUT_PER_MILLION == 250
\* a quarter of the length rounded down
estimateTokensFloor(len) == len \div 4
estimateTokensFromText(len) ==
  LET t == (len + 3) \div 4 IN IF t > 0 THEN t ELSE 0
\* computeCostUSD adds two double-precision products and lets toFixed(6) round
\* the double it got.  Where the exact sum is not halfway between two
\* millionths the double rounds as the exact sum does.  Where it is halfway,
\* the double lies just above or just below the halfway point: below for
\* these counts, among the counts up to 15 and the counts next to a million
HalfwayBelow ==
  {<<0, 1>>, <<0, 7>>, <<0, 11>>, <<0, 13>>, <<5, 2>>, <<5, 4>>, <<5, 8>>,
   <<5, 12>>, <<5, 14>>, <<10, 1>>, <<10, 7>>, <<10, 11>>, <<10, 13>>,
   <<15, 6>>, <<15, 8>>, <<15, 12>>, <<15, 14>>, <<1000000, 3>>}
\* toFixed(6) of the exact sum: the nearest millionth, the larger of two
toFixedExact(hundredths) == (hundredths + 50) \div 100
computeCostUSD(tokensIn, tokensOut) ==
  LET hundredths == tokensIn * PRICE_IN_PER_MILLION
                      + tokensOut * PRICE_OUT_PER_MILLION
  IN IF hundredths % 100 = 50 /\ <<tokensIn, tokensOut>> \in HalfwayBelow
     THEN hundredths \div 100
     ELSE toFixedExact(hundredths)
\* the cost of the addition added to the cost carried
addUsageCarried(prev, addIn, addOut) ==
  [tokensIn |-> prev.tokensIn + addIn, tokensOut |-> prev.tokensOut + addOut,
   costUSD |-> prev.costUSD + computeCostUSD(addIn, addOut)]
addUsage(prev, addIn, addOut) ==
  LET tokensIn == prev.tokensIn + addIn
      tokensOut == prev.tokensOut + addOut
  IN [tokensIn |-> tokensIn, tokensOut |-> tokensOut,
      costUSD |-> computeCostUSD(tokensIn, tokensOut)]
DEFAULT_USAGE == [tokensIn |-> 0, tokensOut |-> 0, costUSD |-> 0]

\* the functions of usage.ts applied to arguments: what was applied to what,
\* and what it returned
NotApplied == [fn |-> "none"]
InitUsage == applied = NotApplied

\* estimateTokensFromText(text) for a text of len characters
EstimateTokens(len) ==
  applied' = [fn |-> "estimateTokensFromText", len |-> len,
              out |-> estimateTokensFromText(len)]

\* computeCostUSD(tokensIn, tokensOut)
ComputeCost(tokensIn, tokensOut) ==
  applied' = [fn |-> "computeCostUSD", tokensIn |-> tokensIn,
              tokensOut |-> tokensOut, out |-> computeCostUSD(tokensIn, tokensOut)]

\* addUsage(addUsage(u, a, b), c, d) and addUsage(addUsage(u, c, d), a, b)
AddUsageTwice(u, a, b, c, d) ==
  applied' = [fn |-> "addUsage", u |-> u, a |-> a, b |-> b, c |-> c, d |-> d,
              first |-> addUsage(addUsage(u, a, b), c, d),
              second |-> addUsage(addUsage(u, c, d), a, b)]

\* generations still running
Generating == BagToSet(generations)
StartGeneration(g) == generations (+) SetToBag({g})
EndGeneration(g) == generations (-) SetToBag({g})

\* the App as mounted, but for its history
InitAppWithHistory(h) ==
  /\ originalImageFile = JNull
  /\ originalImagePreview = JNull
  /\ generatedImageUrl = JNull
  /\ isLoading = FALSE
  /\ error = JNull
  /\ customTheme = ""
  /\ activeTheme = JNull
  /\ history = h
  /\ provider = "google"
  /\ keys = [google |-> "", openrouter |-> ""]
  /\ usage = DEFAULT_USAGE
  /\ editorOpen = FALSE
  /\ editorTarget = JNull
  /\ editorImageSrc = JNull
  /\ generations = EmptyBag
  /\ applying = {}

InitApp == InitAppWithHistory(<<>>)

reactVars ==
  <<originalImageFile, originalImagePreview, generatedImageUrl, isLoading, error,
    customTheme, activeTheme, history, provider, keys, usage, editorOpen,
    editorTarget, editorImageSrc>>
appVars == <<reactVars, generations, applying>>

\* --- generateStyledImage ---
\* a finally block that ends the generation and leaves the rest
GenerationOverStillLoading(g) ==
  /\ generations' = EndGeneration(g)
  /\ UNCHANGED <<isLoading, activeTheme>>

\* the finally block
GenerationOver(g) ==
  /\ isLoading' = FALSE
  /\ activeTheme' = JNull
  /\ generations' = EndGeneration(g)

\* the catch block without the finally block
GenerationFailedNoFinally(g, err) ==
  /\ error' = IF err.message.text # "" THEN err.message
              ELSE Message("Failed to generate image. Please try again.")
  /\ generations' = EndGeneration(g)
  /\ UNCHANGED <<originalImageFile, originalImagePreview, generatedImageUrl,
                 isLoading, activeTheme, customTheme, history, provider, keys,
                 usage, editorOpen, editorTarget, editorImageSrc, applying>>

\* the catch block, then the finally block
GenerationFailed(g, err) ==
  /\ error' = IF err.message.text # "" THEN err.message
              ELSE Message("Failed to generate image. Please try again.")
  /\ GenerationOver(g)
  /\ UNCHANGED <<originalImageFile, originalImagePreview, generatedImageUrl,
                 customTheme, history, provider, keys, usage, editorOpen,
                 editorTarget, editorImageSrc, applying>>

\* the try block with the new entry put after the entries of the history
GenerationSucceededAppends(g, stylizedImageBase64) ==
  LET newImageUrl == [url |-> "data", header |-> "data:image/png;base64",
                      data |-> stylizedImageBase64]
      promptTokens == estimateTokensFromText(PromptLen(g.theme))
  IN /\ generatedImageUrl' = newImageUrl
     /\ history' = history \o <<[imageUrl |-> newImageUrl, theme |-> g.theme]>>
     /\ usage' = addUsage(usage, promptTokens, 0)
     /\ GenerationOver(g)
     /\ UNCHANGED <<originalImageFile, originalImagePreview, error, customTheme,
                    provider, keys, editorOpen, editorTarget, editorImageSrc,
                    applying>>

\* the try block with the prompt's tokens counted as output tokens as well
GenerationSucceededCountsOutput(g, stylizedImageBase64) ==
  LET newImageUrl == [url |-> "data", header |-> "data:image/png;base64",
                      data |-> stylizedImageBase64]
      promptTokens == estimateTokensFromText(PromptLen(g.theme))
  IN /\ generatedImageUrl' = newImageUrl
     /\ history' = <<[imageUrl |-> newImageUrl, theme |-> g.theme]>> \o history
     /\ usage' = addUsage(usage, promptTokens, promptTokens)
     /\ GenerationOver(g)
     /\ UNCHANGED <<originalImageFile, originalImagePreview, error, customTheme,
                    provider, keys, editorOpen, editorTarget, editorImageSrc,
                    applying>>

\* the rest of the try block once the provider call has returned, then the
\* finally block
GenerationSucceeded(g, stylizedImageBase64) ==
  LET newImageUrl == [url |-> "data", header |-> "data:image/png;base64",
                      data |-> stylizedImageBase64]
      promptTokens == estimateTokensFromText(PromptLen(g.theme))
  IN /\ generatedImageUrl' = newImageUrl
     /\ history' = <<[imageUrl |-> newImageUrl, theme |-> g.theme]>> \o history
     /\ usage' = addUsage(usage, promptTokens, 0)
     /\ GenerationOver(g)
     /\ UNCHANGED <<originalImageFile, originalImagePreview, error, customTheme,
                    provider, keys, editorOpen, editorTarget, editorImageSrc,
                    applying>>

\* the provider call of a generation has settled
GenerationSettled(g, call) ==
  IF call.outcome.kind = "returned"
  THEN GenerationSucceeded(g, call.outcome.v)
  ELSE GenerationFailed(g, call.outcome.e)

\* the provider call of a generation goes on
GenerationAwaits(g, call) ==
  /\ generations' = StartGeneration([g EXCEPT !.pc = "provider", !.call = call])
                      (-) SetToBag({g})
  /\ UNCHANGED reactVars /\ UNCHANGED applying

\* from the call to the await of fileToBase64; the early return changes nothing.
\* The call goes on with the file, the provider and the keys of the render it
\* was created in; of the keys it reads the provider's own only
generateStyledImage(theme) ==
  IF originalImageFile = JNull \/ theme = ""
  THEN UNCHANGED appVars
  ELSE /\ isLoading' = TRUE
       /\ error' = JNull
       /\ activeTheme' = JStr(theme)
       /\ generatedImageUrl' = JNull
       /\ generations' = StartGeneration(
            [theme |-> theme, file |-> originalImageFile, provider |-> provider,
             apiKey |-> IF provider = "openrouter" THEN keys.openrouter
                        ELSE keys.google,
             pc |-> "fileToBase64", call |-> NoCall])
       /\ UNCHANGED <<originalImageFile, originalImagePreview, customTheme, history,
                      provider, keys, usage, editorOpen, editorTarget,
                      editorImageSrc, applying>>

\* fileToBase64 has rejected: reader.onerror passes an event, which has no
\* message
FileReadFailed(g) ==
  /\ g \in Generating /\ g.pc = "fileToBase64"
  /\ GenerationFailed(g, [name |-> "ProgressEvent", message |-> Message("")])

\* fileToBase64 has resolved: from there to the await of the provider call,
\* and beyond it when the provider call throws before it issues a request
FileRead(g) ==
  /\ g \in Generating /\ g.pc = "fileToBase64"
  /\ LET data == extractBase64(readAsDataURL(g.file))
     IN IF g.provider = "openrouter"
        THEN IF g.apiKey = ""
             THEN GenerationFailed(g,
                    Error(Message("Missing OpenRouter API key. Add it in Settings.")))
             ELSE LET call == stylizeImageOpenRouter(String(data), g.apiKey)
                  IN IF Outstanding(call) THEN GenerationAwaits(g, call)
                     ELSE GenerationSettled(g, call)
        ELSE IF g.apiKey = ""
             THEN GenerationFailed(g,
                    Error(Message("Missing Google Gemini API key. Add it in Settings.")))
             ELSE LET call == stylizeImage(String(data), g.apiKey)
                  IN IF Outstanding(call) THEN GenerationAwaits(g, call)
                     ELSE GenerationSettled(g, call)

\* the network has answered the request of a generation's provider call
ProviderAnswers(g, r) ==
  /\ g \in Generating /\ g.pc = "provider"
  /\ LET call == ResumeCall(g.call, r)
     IN IF Outstanding(call) THEN GenerationAwaits(g, call)
        ELSE GenerationSettled(g, call)

\* --- the controls of the Stylizer tab ---
\* the theme buttons and the custom-theme form are rendered when a file is
\* selected, and every one of them is disabled while isLoading
\* the controls not disabled while isLoading
CanSubmitWhileLoading == originalImageFile # JNull

CanSubmit == originalImageFile # JNull /\ ~isLoading

ClickTheme(theme) ==
  /\ CanSubmit
  /\ generateStyledImage(theme)

TypeCustomTheme(typed) ==
  /\ CanSubmit
  /\ customTheme' = typed
  /\ UNCHANGED <<originalImageFile, originalImagePreview, generatedImageUrl,
                 isLoading, error, activeTheme, history, provider, keys, usage,
                 editorOpen, editorTarget, editorImageSrc, generations, applying>>

\* the Go button is disabled for a blank text as well
handleCustomThemeSubmit ==
  /\ CanSubmit /\ trim(customTheme) # ""
  /\ IF trim(customTheme) # "" THEN generateStyledImage(trim(customTheme))
     ELSE UNCHANGED appVars

handleFileSelect(file) ==
  /\ originalImageFile' = file
  /\ generatedImageUrl' = JNull
  /\ error' = JNull
  /\ originalImagePreview' = createObjectURL(file)
  /\ UNCHANGED <<isLoading, customTheme, activeTheme, history, provider, keys,
                 usage, editorOpen, editorTarget, editorImageSrc, generations,
                 applying>>

\* --- the history panel ---
\* the filter that keeps the first entries up to the index
filterKeepsHead(prevHistory, index, indexToDelete) ==
  SubSeq(prevHistory, 1, indexToDelete)

\* prevHistory.filter((_, index) => index !== indexToDelete), from the entry
\* at index on; the entry at index is the (index + 1)-th of the sequence
RECURSIVE filterFrom(_, _, _)
filterFrom(prevHistory, index, indexToDelete) ==
  IF index >= Len(prevHistory) THEN <<>>
  ELSE (IF index # indexToDelete THEN <<prevHistory[index + 1]>> ELSE <<>>)
         \o filterFrom(prevHistory, index + 1, indexToDelete)

deleteHistoryItem(indexToDelete) ==
  /\ history' = filterFrom(history, 0, indexToDelete)
  /\ UNCHANGED <<originalImageFile, originalImagePreview, generatedImageUrl,
                 isLoading, error, customTheme, activeTheme, provider, keys,
                 usage, editorOpen, editorTarget, editorImageSrc, generations,
                 applying>>

\* clearHistory that starts the usage over as well
clearHistoryAndUsage ==
  /\ history' = <<>>
  /\ usage' = DEFAULT_USAGE
  /\ UNCHANGED <<originalImageFile, originalImagePreview, generatedImageUrl,
                 isLoading, error, customTheme, activeTheme, provider, keys,
                 editorOpen, editorTarget, editorImageSrc, generations,
                 applying>>

clearHistory ==
  /\ history' = <<>>
  /\ UNCHANGED <<originalImageFile, originalImagePreview, generatedImageUrl,
                 isLoading, error, customTheme, activeTheme, provider, keys,
                 usage, editorOpen, editorTarget, editorImageSrc, generations,
                 applying>>

\* --- the image editor ---
openEditorFor(target) ==
  /\ \/ target = "input" /\ originalImagePreview # JNull
        /\ editorImageSrc' = originalImagePreview
     \/ target = "output" /\ generatedImageUrl # JNull
        /\ editorImageSrc' = generatedImageUrl
  /\ editorTarget' = JStr(target)
  /\ editorOpen' = TRUE
  /\ UNCHANGED <<originalImageFile, originalImagePreview, generatedImageUrl,
                 isLoading, error, customTheme, activeTheme, history, provider,
                 keys, usage, generations, applying>>

\* the modal is rendered while editorOpen, editorImageSrc and editorTarget
EditorShown == editorOpen /\ editorImageSrc # JNull /\ editorTarget # JNull

EditorClose ==
  /\ EditorShown
  /\ editorOpen' = FALSE
  /\ UNCHANGED <<originalImageFile, originalImagePreview, generatedImageUrl,
                 isLoading, error, customTheme, activeTheme, history, provider,
                 keys, usage, editorTarget, editorImageSrc, generations, applying>>

\* onApply for the input image, up to the await of dataUrlToFile
EditorApplyInput(url) ==
  /\ EditorShown /\ editorTarget = JStr("input")
  /\ originalImagePreview' = url
  /\ applying' = applying \cup {url}
  /\ UNCHANGED <<originalImageFile, generatedImageUrl, isLoading, error,
                 customTheme, activeTheme, history, provider, keys, usage,
                 editorOpen, editorTarget, editorImageSrc, generations>>

\* onApply for the input image, after dataUrlToFile has resolved
EditorApplyInputDone(url) ==
  /\ url \in applying
  /\ applying' = applying \ {url}
  /\ originalImageFile' = EditedFile(url)
  /\ editorOpen' = FALSE
  /\ UNCHANGED <<originalImagePreview, generatedImageUrl, isLoading, error,
                 customTheme, activeTheme, history, provider, keys, usage,
                 editorTarget, editorImageSrc, generations>>

\* onApply for the output image
EditorApplyOutput(url) ==
  /\ EditorShown /\ editorTarget = JStr("output")
  /\ generatedImageUrl' = url
  /\ editorOpen' = FALSE
  /\ UNCHANGED <<originalImageFile, originalImagePreview, isLoading, error,
                 customTheme, activeTheme, history, provider, keys, usage,
                 editorTarget, editorImageSrc, generations, applying>>

\* --- the Settings dialog ---
\* the provider buttons: keyStore's setProvider, then setProviderState
ChooseProvider(p) ==
  /\ setProvider(p)
  /\ provider' = p
  /\ UNCHANGED <<originalImageFile, originalImagePreview, generatedImageUrl,
                 isLoading, error, customTheme, activeTheme, history, keys, usage,
                 editorOpen, editorTarget, editorImageSrc, generations, applying>>

\* the key inputs: setKeys({ ...keys, [field]: value })
EditKey(field, value) ==
  /\ keys' = [keys EXCEPT ![field] = value]
  /\ UNCHANGED <<originalImageFile, originalImagePreview, generatedImageUrl,
                 isLoading, error, customTheme, activeTheme, history, provider,
                 usage, editorOpen, editorTarget, editorImageSrc, generations,
                 applying>>

onResetUsage ==
  /\ usage' = [tokensIn |-> 0, tokensOut |-> 0, costUSD |-> 0]
  /\ UNCHANGED <<originalImageFile, originalImagePreview, generatedImageUrl,
                 isLoading, error, customTheme, activeTheme, history, provider,
                 keys, editorOpen, editorTarget, editorImageSrc, generations,
                 applying>>

\* --- the Settings dialog: passphrase, Save and Load ---
InitSettings ==
  /\ passphrase = ""
  /\ settingsOpen = FALSE
  /\ handlers = EmptyBag

\* the keys object and the { history, usage } object the handlers pass to the
\* key store, and the keys state a loaded object gives
KeysObject(k) ==
  JObj([google |-> JStr(k.google), openrouter |-> JStr(k.openrouter)])
AppObject(h, u) == JObj([history |-> JRaw(h), usage |-> JRaw(u)])
KeysState(loadedKeys) ==
  [f \in {"google", "openrouter"} |->
     IF Prop(loadedKeys, f).t = "string" THEN Prop(loadedKeys, f).s ELSE ""]

\* a value in a condition: null and undefined are falsy, objects and arrays
\* are not
TruthyObject(v) == v.t \notin {"null", "undefined"}

\* onSave and onLoad invocations that have not returned yet
Handling == BagToSet(handlers)
\* a continuation is due: the promise a handler awaits has settled, and the
\* handler goes on before any other event is dispatched
Due == \E h \in Handling : h.ready

\* the persist effect: it runs after a render in which history, usage or
\* passphrase changed, with the values of that render
PersistEffect ==
  IF passphrase' # ""
  THEN SaveAppDataBegin(AppObject(history', usage'), passphrase')
  ELSE /\ ret' = NoRet
       /\ UNCHANGED <<storage, inMemoryKeys, inMemoryApp, calls, lastSave, tampered>>

\* the key-store call the step has started and left suspended, if any
NoneStarted == [fn |-> "none"]
Started ==
  IF calls' = calls THEN NoneStarted
  ELSE CHOOSE c \in BagToSet(calls') : CopiesIn(c, calls') > CopiesIn(c, calls)

\* the key-store call a handler awaits settles: the handler is due, with
\* the value the call returned
Settles(c, val) ==
  IF \E h \in Handling : ~h.ready /\ h.awaits = c
  THEN LET h == CHOOSE w \in Handling : ~w.ready /\ w.awaits = c
       IN handlers' = (handlers (-) SetToBag({h}))
                        (+) SetToBag({[h EXCEPT !.ready = TRUE, !.result = val]})
  ELSE UNCHANGED handlers

openSettings ==
  /\ settingsOpen' = TRUE
  /\ UNCHANGED <<passphrase, handlers>>

onClose ==
  /\ settingsOpen
  /\ settingsOpen' = FALSE
  /\ UNCHANGED <<passphrase, handlers>>

\* the passphrase input: setPassphrase, then the persist effect
setPassphrase(typed) ==
  /\ settingsOpen /\ typed # passphrase
  /\ passphrase' = typed
  /\ UNCHANGED <<settingsOpen, handlers>>
  /\ UNCHANGED appVars
  /\ PersistEffect

\* onSave up to its first await: saveKeys(keys, passphrase || undefined).
\* The handler goes on with the keys, history, usage and passphrase of the
\* render it was created in
onSave ==
  /\ settingsOpen
  /\ saveKeys(KeysObject(keys), passphrase)
  /\ handlers' = handlers (+) SetToBag({
       [fn |-> "onSave", pc |-> "saveKeys", pass |-> passphrase,
        data |-> AppObject(history, usage),
        ready |-> passphrase = "",
        awaits |-> Started,
        result |-> JUndef]})
  /\ UNCHANGED <<passphrase, settingsOpen>>
  /\ UNCHANGED appVars

\* onSave after saveKeys has resolved: saveAppData({ history, usage }, ...),
\* and after a save without passphrase, which completes at once,
\* setSettingsOpen(false)
OnSaveKeysSaved(h) ==
  /\ h \in Handling /\ h.fn = "onSave" /\ h.pc = "saveKeys" /\ h.ready
  /\ saveAppData(h.data, h.pass)
  /\ IF h.pass = ""
     THEN /\ handlers' = handlers (-) SetToBag({h})
          /\ settingsOpen' = FALSE
     ELSE /\ handlers' = (handlers (-) SetToBag({h})) (+) SetToBag({
               [h EXCEPT !.pc = "saveAppData", !.ready = FALSE,
                         !.awaits = Started]})
          /\ UNCHANGED settingsOpen
  /\ UNCHANGED passphrase
  /\ UNCHANGED appVars

\* onSave after saveAppData has resolved: setSettingsOpen(false)
OnSaveAppDataSaved(h) ==
  /\ h \in Handling /\ h.fn = "onSave" /\ h.pc = "saveAppData" /\ h.ready
  /\ handlers' = handlers (-) SetToBag({h})
  /\ settingsOpen' = FALSE
  /\ UNCHANGED passphrase
  /\ UNCHANGED appVars
  /\ ret' = NoRet
  /\ UNCHANGED <<storage, inMemoryKeys, inMemoryApp, calls, lastSave, tampered>>

\* onLoad up to its first await: loadKeys(passphrase || undefined), which
\* has returned already unless it suspended
onLoad ==
  /\ settingsOpen
  /\ loadKeys(passphrase)
  /\ handlers' = handlers (+) SetToBag({
       [fn |-> "onLoad", pc |-> "loadKeys", pass |-> passphrase,
        data |-> JUndef,
        ready |-> ret'.fn = "loadKeys",
        awaits |-> Started,
        result |-> ret'.val]})
  /\ UNCHANGED <<passphrase, settingsOpen>>
  /\ UNCHANGED appVars

\* onLoad after loadKeys has resolved: setKeys if it returned keys, then
\* loadAppData(passphrase || undefined)
OnLoadKeysLoaded(h) ==
  /\ h \in Handling /\ h.fn = "onLoad" /\ h.pc = "loadKeys" /\ h.ready
  /\ keys' = IF TruthyObject(h.result) THEN KeysState(h.result) ELSE keys
  /\ loadAppData(h.pass)
  /\ handlers' = (handlers (-) SetToBag({h})) (+) SetToBag({
       [h EXCEPT !.pc = "loadAppData",
                 !.ready = ret'.fn = "loadAppData",
                 !.awaits = Started,
                 !.result = ret'.val]})
  /\ UNCHANGED <<passphrase, settingsOpen>>
  /\ UNCHANGED <<originalImageFile, originalImagePreview, generatedImageUrl,
                 isLoading, error, customTheme, activeTheme, history, provider,
                 usage, editorOpen, editorTarget, editorImageSrc, generations,
                 applying>>

\* onLoad after loadAppData has resolved: setHistory and setUsage with what
\* the loaded object holds, then the persist effect if one of them was set
OnLoadAppDataLoaded(h) ==
  /\ h \in Handling /\ h.fn = "onLoad" /\ h.pc = "loadAppData" /\ h.ready
  /\ LET app == h.result
         loadedHistory == Prop(app, "history")
         loadedUsage == Prop(app, "usage")
     IN /\ history' = IF TruthyObject(loadedHistory) THEN loadedHistory.x
                      ELSE history
        /\ usage' = IF TruthyObject(loadedUsage) THEN loadedUsage.x ELSE usage
        /\ handlers' = handlers (-) SetToBag({h})
        /\ UNCHANGED <<passphrase, settingsOpen>>
        /\ IF TruthyObject(loadedHistory) \/ TruthyObject(loadedUsage)
           THEN PersistEffect
           ELSE /\ ret' = NoRet
                /\ UNCHANGED <<storage, inMemoryKeys, inMemoryApp, calls,
                               lastSave, tampered>>
  /\ UNCHANGED <<originalImageFile, originalImagePreview, generatedImageUrl,
                 isLoading, error, customTheme, activeTheme, provider, keys,
                 editorOpen, editorTarget, editorImageSrc, generations,
                 applying>>

(***************************************************************************)
(* The image editor (ImageEditorModal): the component's state, its image   *)
(* ref and its memoized scale; one action for every event handler.         *)
(* Numbers that need not be whole (the scale factors) are kept as          *)
(* fractions.                                                              *)
(***************************************************************************)
defaultColor == "#ff3b3b"

\* a || 1
OrOne(a) == IF a = 0 THEN 1 ELSE a

\* Math.round(a / b) for b > 0: the nearest integer, the larger of two
Round(a, b) == (2 * a + b) \div (2 * b)

Min(a, b) == IF a <= b THEN a ELSE b
Max(a, b) == IF a >= b THEN a ELSE b
Abs(a) == IF a >= 0 THEN a ELSE 0 - a

\* the ratio Math.min(maxSide / width, maxSide / height, 1) of img.onload as
\* a fraction, and the render size it gives
FitRatio(img) ==
  LET maxSide == 720
  IN IF Max(img.width, img.height) <= maxSide THEN [num |-> 1, den |-> 1]
     ELSE [num |-> maxSide, den |-> Max(img.width, img.height)]
FitSize(img) ==
  [w |-> Round(img.width * FitRatio(img).num, FitRatio(img).den),
   h |-> Round(img.height * FitRatio(img).num, FitRatio(img).den)]

\* the scale the useMemo callback computes in a render: renderSize over the
\* size of the image in imgRef, or over 1 while there is none
ScaleOf(size, ref) ==
  [sx |-> [num |-> size.w, den |-> IF ref = JNull THEN 1 ELSE OrOne(ref.width)],
   sy |-> [num |-> size.h, den |-> IF ref = JNull THEN 1 ELSE OrOne(ref.height)]]

\* the memoized scale after a render: computed again when renderSize.w or
\* renderSize.h differ from those of the render before
Memo(before, size, ref) ==
  IF size.w # before.w \/ size.h # before.h THEN ScaleOf(size, ref) ELSE scale

\* invScale: 1 / (scale.sx || 1) and 1 / (scale.sy || 1)
invScale ==
  [ix |-> IF scale.sx.num = 0 THEN [num |-> 1, den |-> 1]
          ELSE [num |-> scale.sx.den, den |-> scale.sx.num],
   iy |-> IF scale.sy.num = 0 THEN [num |-> 1, den |-> 1]
          ELSE [num |-> scale.sy.den, den |-> scale.sy.num]]

InitEditor ==
  /\ imgRef = JNull
  /\ mode = "draw"
  /\ strokes = <<>>
  /\ activeStroke = JNull
  /\ brushSize = 6
  /\ brushColor = defaultColor
  /\ crop = JNull
  /\ draggingCrop = FALSE
  /\ startDrag = JNull
  /\ renderSize = [w |-> 512, h |-> 512]
  /\ scale = ScaleOf([w |-> 512, h |-> 512], JNull)
  /\ exported = JNull

\* img.onload: the image is kept in the ref and the render size is set
onload(img) ==
  /\ imgRef = JNull
  /\ imgRef' = img
  /\ renderSize' = FitSize(img)
  /\ scale' = Memo(renderSize, FitSize(img), img)
  /\ UNCHANGED <<mode, strokes, activeStroke, brushSize, brushColor, crop,
                 draggingCrop, startDrag, exported>>

\* Math.random().toString(36).slice(2): an id no stroke has
StrokeIds == 1 .. 8
FreshId ==
  CHOOSE id \in StrokeIds :
    /\ \A i \in 1 .. Len(strokes) : strokes[i].id # id
    /\ activeStroke = JNull \/ activeStroke.id # id

\* onMouseDown with the pointer at p of the canvas
onMouseDown(p) ==
  IF mode = "draw"
  THEN /\ activeStroke' = [id |-> FreshId, points |-> <<p>>, color |-> brushColor,
                           width |-> brushSize, note |-> ""]
       /\ UNCHANGED <<imgRef, mode, strokes, brushSize, brushColor, crop,
                      draggingCrop, startDrag, renderSize, scale, exported>>
  ELSE /\ draggingCrop' = TRUE
       /\ startDrag' = p
       /\ crop' = [x |-> p.x, y |-> p.y, w |-> 1, h |-> 1]
       /\ UNCHANGED <<imgRef, mode, strokes, activeStroke, brushSize, brushColor,
                      renderSize, scale, exported>>

onMouseMove(p) ==
  IF mode = "draw" /\ activeStroke # JNull
  THEN /\ activeStroke' = [activeStroke EXCEPT !.points = Append(@, p)]
       /\ UNCHANGED <<imgRef, mode, strokes, brushSize, brushColor, crop,
                      draggingCrop, startDrag, renderSize, scale, exported>>
  ELSE IF mode = "crop" /\ draggingCrop /\ startDrag # JNull
  THEN /\ crop' = [x |-> Min(startDrag.x, p.x), y |-> Min(startDrag.y, p.y),
                   w |-> Abs(p.x - startDrag.x), h |-> Abs(p.y - startDrag.y)]
       /\ UNCHANGED <<imgRef, mode, strokes, activeStroke, brushSize, brushColor,
                      draggingCrop, startDrag, renderSize, scale, exported>>
  ELSE UNCHANGED editorVars

\* onMouseUp, which is onMouseLeave as well
onMouseUp ==
  /\ IF mode = "draw" /\ activeStroke # JNull
     THEN /\ strokes' = Append(strokes, activeStroke)
          /\ activeStroke' = JNull
     ELSE UNCHANGED <<strokes, activeStroke>>
  /\ IF mode = "crop"
     THEN /\ draggingCrop' = FALSE
          /\ startDrag' = JNull
     ELSE UNCHANGED <<draggingCrop, startDrag>>
  /\ UNCHANGED <<imgRef, mode, brushSize, brushColor, crop, renderSize, scale,
                 exported>>

\* the Draw and Crop buttons
setModeResets(m) ==
  /\ mode' = m
  /\ strokes' = <<>>
  /\ crop' = JNull
  /\ UNCHANGED <<imgRef, activeStroke, brushSize, brushColor, draggingCrop,
                 startDrag, renderSize, scale, exported>>

setMode(m) ==
  /\ mode' = m
  /\ UNCHANGED <<imgRef, strokes, activeStroke, brushSize, brushColor, crop,
                 draggingCrop, startDrag, renderSize, scale, exported>>

\* the brush controls, shown in draw mode
setBrushSize(size) ==
  /\ mode = "draw"
  /\ brushSize' = size
  /\ UNCHANGED <<imgRef, mode, strokes, activeStroke, brushColor, crop,
                 draggingCrop, startDrag, renderSize, scale, exported>>

setBrushColor(color) ==
  /\ mode = "draw"
  /\ brushColor' = color
  /\ UNCHANGED <<imgRef, mode, strokes, activeStroke, brushSize, crop,
                 draggingCrop, startDrag, renderSize, scale, exported>>

\* Clear Annotations, shown in draw mode
clearStrokes ==
  /\ mode = "draw"
  /\ strokes' = <<>>
  /\ UNCHANGED <<imgRef, mode, activeStroke, brushSize, brushColor, crop,
                 draggingCrop, startDrag, renderSize, scale, exported>>

\* Reset Crop, shown in crop mode
resetCrop ==
  /\ mode = "crop"
  /\ crop' = JNull
  /\ UNCHANGED <<imgRef, mode, strokes, activeStroke, brushSize, brushColor,
                 draggingCrop, startDrag, renderSize, scale, exported>>

\* the note of a region, typed in the list
updateNote(id, note) ==
  /\ \E i \in 1 .. Len(strokes) : strokes[i].id = id
  /\ strokes' = [i \in 1 .. Len(strokes) |->
                   IF strokes[i].id = id THEN [strokes[i] EXCEPT !.note = note]
                   ELSE strokes[i]]
  /\ UNCHANGED <<imgRef, mode, activeStroke, brushSize, brushColor, crop,
                 draggingCrop, startDrag, renderSize, scale, exported>>

\* Remove of a region
deleteStroke(id) ==
  /\ \E i \in 1 .. Len(strokes) : strokes[i].id = id
  /\ strokes' = SelectSeq(strokes, LAMBDA s : s.id # id)
  /\ UNCHANGED <<imgRef, mode, activeStroke, brushSize, brushColor, crop,
                 draggingCrop, startDrag, renderSize, scale, exported>>

\* --- applyEdits ---
\* the crop rectangle in source pixels
CropSrc ==
  [x |-> Max(0, Round(crop.x * invScale.ix.num, invScale.ix.den)),
   y |-> Max(0, Round(crop.y * invScale.iy.num, invScale.iy.den)),
   w |-> Max(1, Round(crop.w * invScale.ix.num, invScale.ix.den)),
   h |-> Max(1, Round(crop.h * invScale.iy.num, invScale.iy.den))]

\* scaleToOut: a point of the canvas in the pixels of the output
scaleToOut(p) ==
  [x |-> Round((p.x - (IF crop # JNull THEN crop.x ELSE 0)) * invScale.ix.num,
               invScale.ix.den),
   y |-> Round((p.y - (IF crop # JNull THEN crop.y ELSE 0)) * invScale.iy.num,
               invScale.iy.den)]

\* what the loop over the strokes draws: the line of every stroke of two
\* points or more, and its note if it has one
Drawn(s) ==
  [id |-> s.id, color |-> s.color,
   lineWidth |-> Max(1, Round(s.width * invScale.ix.num, invScale.ix.den)),
   points |-> [i \in 1 .. Len(s.points) |-> scaleToOut(s.points[i])],
   note |-> s.note]
DrawnStrokes ==
  LET drawn == SelectSeq(strokes, LAMBDA s : Len(s.points) >= 2)
  IN [i \in 1 .. Len(drawn) |-> Drawn(drawn[i])]

\* the size of the output: that of the crop rectangle as the canvas shows it
OutputOfRenderSize ==
  IF crop # JNull THEN [w |-> crop.w, h |-> crop.h] ELSE renderSize

\* the size of the output: the crop rectangle in source pixels, or the image
OutputSize ==
  IF crop # JNull THEN [w |-> CropSrc.w, h |-> CropSrc.h]
  ELSE [w |-> imgRef.width, h |-> imgRef.height]

\* Apply: nothing without an image, else the composed image goes to onApply
applyEdits ==
  IF imgRef = JNull THEN UNCHANGED editorVars
  ELSE /\ exported' = [width |-> OutputSize.w, height |-> OutputSize.h,
                       cropSrc |-> IF crop # JNull THEN CropSrc ELSE JNull,
                       strokes |-> DrawnStrokes]
       /\ UNCHANGED <<imgRef, mode, strokes, activeStroke, brushSize, brushColor,
                      crop, draggingCrop, startDrag, renderSize, scale>>

(***************************************************************************)
(* The key validation of the App (the effect on keys.google and            *)
(* keys.openrouter).  The effect runs in the step that changed a key: the  *)
(* render of a discrete event and its effects are done before the next     *)
(* event or continuation.                                                  *)
(***************************************************************************)
\* the length of a key as typed
length(key) == CASE key = "" -> 0 [] key = "k" -> 1 [] OTHER -> 12

InitValid ==
  /\ googleValid = JNull
  /\ openrouterValid = JNull
  /\ validations = <<>>

\* the cleanup of the effect: cancelled = true in the closure of the run
\* before (the runs before that one were cancelled by then)
Cleanup ==
  [i \in DOMAIN validations |-> [validations[i] EXCEPT !.cancelled = TRUE]]

\* the effect after a render whose keys are next: cleanup of the run before
\* and validate() up to its await, when a key differs from prev's
validate(prev, next) ==
  IF next.google = prev.google /\ next.openrouter = prev.openrouter
  THEN UNCHANGED validVars
  ELSE /\ googleValid' = IF next.google # "" THEN JRaw(length(next.google) > 10)
                         ELSE JNull
       /\ IF next.openrouter # ""
          THEN /\ validations' = Append(Cleanup, [key |-> next.openrouter,
                                                  cancelled |-> FALSE,
                                                  result |-> Pending])
               /\ UNCHANGED openrouterValid
          ELSE /\ validations' = Cleanup
               /\ openrouterValid' = JNull

\* validateOpenRouterKey once its fetch has settled: res.ok, false if it threw
validateOpenRouterKey(r) == IF r.net = "rejects" THEN FALSE ELSE ok(r)

\* the rest of validate() that sets the result whether cancelled or not
ValidationSettlesUnchecked(i, r) ==
  /\ i \in DOMAIN validations /\ validations[i].result = Pending
  /\ validations' = [validations EXCEPT ![i].result = JRaw(validateOpenRouterKey(r))]
  /\ openrouterValid' = JRaw(validateOpenRouterKey(r))
  /\ UNCHANGED googleValid

\* the rest of validate() after the await: if (!cancelled) setOpenrouterValid(ok)
ValidationSettles(i, r) ==
  /\ i \in DOMAIN validations /\ validations[i].result = Pending
  /\ validations' = [validations EXCEPT ![i].result = JRaw(validateOpenRouterKey(r))]
  /\ openrouterValid' = IF ~validations[i].cancelled THEN JRaw(validateOpenRouterKey(r))
                        ELSE openrouterValid
  /\ UNCHANGED googleValid

(***************************************************************************)
(* The specifications.                                                     *)
(***************************************************************************)
\* saveKeys/loadKeys calls start and settle in any interleaving
KeysBegin(K, P) ==
  \/ \E k \in K, p \in P : saveKeys(k, p)
  \/ \E p \in P : loadKeys(p)

KeysSettle ==
  \/ \E c \in Suspended : SaveKeysWrite(c)
  \/ \E c \in Suspended : LoadKeysFinish(c)

\* saveAppData/loadAppData calls start and settle in any interleaving
AppDataBegin(A, P) ==
  \/ \E d \in A, p \in P : saveAppData(d, p)
  \/ \E p \in P : loadAppData(p)

AppDataSettle ==
  \/ \E c \in Suspended : SaveAppDataWrite(c)
  \/ \E c \in Suspended : LoadAppDataFinish(c)

vars == <<storeVars, stylize, appVars, applied, editorVars, validVars, settingsVars>>
Init ==
  /\ InitStore /\ InitClient /\ InitApp /\ InitUsage /\ InitSettings /\ InitEditor
  /\ InitValid

\* a step of the key store alone, of a provider client alone, of the App
StoreOnly == UNCHANGED <<stylize, appVars, applied, editorVars, validVars, settingsVars>>
ClientOnly == UNCHANGED <<storeVars, appVars, applied, editorVars, validVars, settingsVars>>
AppOnly == UNCHANGED <<storeVars, stylize, applied, editorVars, validVars, settingsVars>>
UsageOnly == UNCHANGED <<storeVars, stylize, appVars, settingsVars, editorVars, validVars>>

\* the credential slot alone, calls overlapping
NextKeys ==
  \/ KeysBegin(KeysValues, Passphrases) /\ StoreOnly
  \/ KeysSettle /\ StoreOnly
  \/ Reload /\ StoreOnly
SpecKeys == Init /\ [][NextKeys]_vars

\* the application-data slot alone, calls overlapping
NextAppData ==
  \/ AppDataBegin(AppValues, Passphrases) /\ StoreOnly
  \/ AppDataSettle /\ StoreOnly
  \/ Reload /\ StoreOnly
SpecAppData == Init /\ [][NextAppData]_vars

\* both slots and the provider selection, calls overlapping
StoreKeys == {JObj([google |-> JStr("g1")])}
StoreAppData == {JObj([usage |-> JRaw(1)])}
StorePassphrases == {"", "p1"}
NextStore ==
  \/ KeysBegin(StoreKeys, StorePassphrases) /\ StoreOnly
  \/ KeysSettle /\ StoreOnly
  \/ AppDataBegin(StoreAppData, StorePassphrases) /\ StoreOnly
  \/ AppDataSettle /\ StoreOnly
  \/ (\E p \in Providers : setProvider(p)) /\ StoreOnly
  \/ Reload /\ StoreOnly
Spec == Init /\ [][NextStore]_vars

SlotEmpty(slot) == \A n \in slot : storage[n] = Absent

\* both slots, one call at a time and one slot in use at a time, and entries
\* changed from outside the program between calls
NextTamper ==
  \/ calls = EmptyBag /\ SlotEmpty(AppSlot) /\ KeysBegin(KeysValues, Passphrases)
       /\ StoreOnly
  \/ KeysSettle /\ StoreOnly
  \/ calls = EmptyBag /\ SlotEmpty(KeySlot) /\ AppDataBegin(AppValues, Passphrases)
       /\ StoreOnly
  \/ AppDataSettle /\ StoreOnly
  \/ (\E n \in KeySlot \cup AppSlot, how \in TamperKinds : Tamper(n, how)) /\ StoreOnly
  \/ Reload /\ StoreOnly
SpecTamper == Init /\ [][NextTamper]_vars

\* the provider clients: one call after the other, any arguments, any answers
NextClient ==
  \/ (\E impl \in Impls, d \in Base64Inputs, k \in ApiKeys : Stylize(impl, d, k))
       /\ ClientOnly
  \/ (\E r \in OutcomesFor(stylize) : Answer(r)) /\ ClientOnly
SpecClient == Init /\ [][NextClient]_vars

\* what the user selects and the network answers in the App's specification
AppFiles == Files
AppFetchOutcomes ==
  {FetchRejects,
   Response(200, JsonBody([data0 |-> JStr("d"), images0 |-> JUndef, output |-> JUndef]))}
AppSdkOutcomes ==
  {[net |-> "rejects", message |-> Message("")],
   [net |-> "response", image |-> JStr("d"), unsafe |-> FALSE, finishReason |-> "STOP"]}
AppOutcomesFor(g) == IF g.call.impl = "gemini" THEN AppSdkOutcomes ELSE AppFetchOutcomes

\* usage.ts: one of its functions applied once, to token counts and text
\* lengths
TextLengths == 0 .. MaxTextLen
TokenCounts == 0 .. MaxTokens
ClaimedCounts == {0, 1000000}
CarriedCosts == {0, 999}
Usages == [tokensIn : TokenCounts, tokensOut : TokenCounts, costUSD : CarriedCosts]
NextUsage ==
  \/ applied = NotApplied /\ UsageOnly
       /\ \E len \in TextLengths : EstimateTokens(len)
  \/ applied = NotApplied /\ UsageOnly
       /\ \E tokensIn \in TokenCounts, tokensOut \in TokenCounts :
            ComputeCost(tokensIn, tokensOut)
  \/ applied = NotApplied /\ UsageOnly
       /\ \E tokensIn \in ClaimedCounts, tokensOut \in ClaimedCounts :
            ComputeCost(tokensIn, tokensOut)
  \/ applied = NotApplied /\ UsageOnly
       /\ \E u \in Usages, a \in TokenCounts, b \in TokenCounts,
            c \in TokenCounts, d \in TokenCounts :
            AddUsageTwice(u, a, b, c, d)
SpecUsage == Init /\ [][NextUsage]_vars

\* generations one after another, with every way a generation fails: no key,
\* a file that cannot be read, a request the network rejects, a response
\* with an error status, a response without an image
GenFetchOutcomes ==
  {FetchRejects,
   Response(200, JsonBody([data0 |-> JStr("d"), images0 |-> JUndef, output |-> JUndef])),
   Response(200, JsonBody([data0 |-> JUndef, images0 |-> JUndef, output |-> JUndef])),
   Response(500, TextBody("denied"))}
GenSdkOutcomes ==
  {[net |-> "rejects", message |-> Message("")],
   [net |-> "response", image |-> JStr("d"), unsafe |-> FALSE, finishReason |-> "STOP"],
   [net |-> "response", image |-> JUndef, unsafe |-> FALSE, finishReason |-> "STOP"]}
GenOutcomesFor(g) == IF g.call.impl = "gemini" THEN GenSdkOutcomes ELSE GenFetchOutcomes
NextGenerate ==
  \/ (\E f \in Files : handleFileSelect(f)) /\ AppOnly
  \/ Len(history) < MaxGenerated /\ (\E t \in THEMES : ClickTheme(t)) /\ AppOnly
  \/ (\E t \in {"", "Retro "} : TypeCustomTheme(t)) /\ AppOnly
  \/ Len(history) < MaxGenerated /\ handleCustomThemeSubmit /\ AppOnly
  \/ (\E g \in Generating : FileRead(g)) /\ AppOnly
  \/ (\E g \in Generating : FileReadFailed(g)) /\ AppOnly
  \/ (\E g \in Generating : \E r \in GenOutcomesFor(g) : ProviderAnswers(g, r)) /\ AppOnly
  \/ (\E f \in {"google", "openrouter"}, v \in {"", "k"} : EditKey(f, v)) /\ AppOnly
  \/ onResetUsage /\ AppOnly
  \/ (\E p \in Providers : ChooseProvider(p))
       /\ UNCHANGED <<inMemoryKeys, inMemoryApp, calls, lastSave, tampered, stylize,
                      applied, editorVars, validVars, settingsVars>>
SpecGenerate == Init /\ [][NextGenerate]_vars

\* the same, where a FileReader that was started fires load or error and a
\* request that was issued is answered or fails
FileReaderFires == (\E g \in Generating : FileRead(g) \/ FileReadFailed(g)) /\ AppOnly
RequestCompletes ==
  (\E g \in Generating : \E r \in GenOutcomesFor(g) : ProviderAnswers(g, r)) /\ AppOnly
SpecGenerateFair ==
  SpecGenerate /\ WF_vars(FileReaderFires) /\ WF_vars(RequestCompletes)

\* the Settings dialog with the Stylizer and History tabs behind it: the
\* passphrase typed, Save and Load, one generation at a time with a key
\* store call or a handler's continuation in between.  A handler whose
\* promise has settled goes on before the next event.
SettingsPassphrases == {"", "p1"}
SettingsFile == [name |-> "me.png", size |-> 2]
MayGenerate ==
  /\ Len(history) < MaxHistory
  /\ usage.tokensIn < MaxHistory * estimateTokensFromText(PromptLen("Anime"))
\* key store calls do not overlap here, nor do Save and Load: an event that
\* may start one waits for the one suspended
MayCall == calls = EmptyBag
MayHandle == MayCall /\ handlers = EmptyBag
\* no key store call settled in the step
StoreQuiet ==
  /\ ret' = NoRet
  /\ UNCHANGED <<storage, inMemoryKeys, inMemoryApp, calls, lastSave, tampered>>
\* the App has rendered: nothing outside it changed, and the persist effect
\* has run if history or usage were set
Rendered(set) ==
  /\ UNCHANGED <<stylize, applied, editorVars, validVars, settingsVars>>
  /\ IF set THEN PersistEffect ELSE StoreQuiet
NextSettings ==
  \/ ~Due /\ openSettings /\ StoreQuiet /\ UNCHANGED <<stylize, appVars, applied, editorVars, validVars>>
  \/ ~Due /\ onClose /\ StoreQuiet /\ UNCHANGED <<stylize, appVars, applied, editorVars, validVars>>
  \/ ~Due /\ MayCall /\ (\E p \in SettingsPassphrases : setPassphrase(p))
       /\ UNCHANGED <<stylize, applied, editorVars, validVars>>
  \/ ~Due /\ MayHandle /\ onSave /\ UNCHANGED <<stylize, applied, editorVars, validVars>>
  \/ (\E h \in Handling : OnSaveKeysSaved(h)) /\ UNCHANGED <<stylize, applied, editorVars, validVars>>
  \/ (\E h \in Handling : OnSaveAppDataSaved(h)) /\ UNCHANGED <<stylize, applied, editorVars, validVars>>
  \/ ~Due /\ MayHandle /\ onLoad /\ UNCHANGED <<stylize, applied, editorVars, validVars>>
  \/ (\E h \in Handling : OnLoadKeysLoaded(h)) /\ UNCHANGED <<stylize, applied, editorVars, validVars>>
  \/ (\E h \in Handling : OnLoadAppDataLoaded(h)) /\ UNCHANGED <<stylize, applied, editorVars, validVars>>
  \/ ~Due /\ (\E c \in Suspended : SaveKeysWrite(c) /\ Settles(c, JUndef))
       /\ UNCHANGED <<stylize, appVars, applied, editorVars, validVars, passphrase, settingsOpen>>
  \/ ~Due /\ (\E c \in Suspended : SaveAppDataWrite(c) /\ Settles(c, JUndef))
       /\ UNCHANGED <<stylize, appVars, applied, editorVars, validVars, passphrase, settingsOpen>>
  \/ ~Due /\ (\E c \in Suspended : LoadKeysFinish(c) /\ Settles(c, ret'.val))
       /\ UNCHANGED <<stylize, appVars, applied, editorVars, validVars, passphrase, settingsOpen>>
  \/ ~Due /\ (\E c \in Suspended : LoadAppDataFinish(c) /\ Settles(c, ret'.val))
       /\ UNCHANGED <<stylize, appVars, applied, editorVars, validVars, passphrase, settingsOpen>>
  \/ ~Due /\ ~settingsOpen /\ handleFileSelect(SettingsFile) /\ Rendered(FALSE)
  \/ ~Due /\ ~settingsOpen /\ MayGenerate
       /\ (\E t \in THEMES : ClickTheme(t)) /\ Rendered(FALSE)
  \/ ~Due /\ (\E g \in Generating : FileRead(g)) /\ Rendered(FALSE)
  \/ ~Due /\ MayCall /\ MayGenerate
       /\ (\E g \in Generating : \E r \in AppSdkOutcomes : ProviderAnswers(g, r))
       /\ Rendered(history' # history)
  \/ ~Due /\ settingsOpen /\ EditKey("google", "k") /\ Rendered(FALSE)
  \/ ~Due /\ MayCall /\ settingsOpen /\ onResetUsage /\ Rendered(TRUE)
  \/ ~Due /\ MayCall /\ ~settingsOpen /\ Len(history) > 0
       /\ deleteHistoryItem(0) /\ Rendered(TRUE)
  \/ ~Due /\ MayCall /\ ~settingsOpen /\ clearHistory /\ Rendered(TRUE)
SpecSettings == Init /\ [][NextSettings]_vars

\* the history panel: deleteHistoryItem and clearHistory, starting from the
\* histories MaxEntries generations leave, with indices in and out of range
HistoryEntries ==
  {[imageUrl |-> [url |-> "data", header |-> "data:image/png;base64", data |-> d],
    theme |-> t] : d \in {"d", "e"}, t \in {"Anime", "Retro"}}
Histories == [1 .. MaxEntries -> HistoryEntries]
InitHistory ==
  /\ InitStore /\ InitClient /\ InitUsage /\ InitSettings /\ InitEditor
  /\ InitValid
  /\ \E h \in Histories : InitAppWithHistory(h)
NextHistory ==
  \/ (\E i \in -1 .. MaxEntries + 1 : deleteHistoryItem(i)) /\ AppOnly
  \/ clearHistory /\ AppOnly
SpecHistory == InitHistory /\ [][NextHistory]_vars

\* the image editor: an image that loads, then pointer events, buttons and
\* notes in any order; Apply hands the image over and the App closes the editor
Images ==
  {[width |-> 512, height |-> 512], [width |-> 1440, height |-> 720]}
CanvasPoints == {[x |-> 10, y |-> 20], [x |-> 200, y |-> 100]}
BrushSizes == {6, 24}
BrushColors == {defaultColor, "#00ff00"}
Notes == {"", "hair"}
EditorOpen == exported = JNull
EditorOnly == UNCHANGED <<storeVars, stylize, appVars, applied, settingsVars, validVars>>
RECURSIVE PointsOf(_)
PointsOf(ss) == IF ss = <<>> THEN 0 ELSE Len(Head(ss).points) + PointsOf(Tail(ss))
TotalPoints ==
  PointsOf(strokes) + (IF activeStroke = JNull THEN 0 ELSE Len(activeStroke.points))
\* a stroke is begun with the button up, and the brush is chosen before the
\* first stroke
MayDraw == mode = "draw" => activeStroke = JNull /\ TotalPoints < MaxPoints
MayExtend == (mode = "draw" /\ activeStroke # JNull) => TotalPoints < MaxPoints
MayChooseBrush == TotalPoints = 0
NextEditor ==
  \/ EditorOpen /\ (\E img \in Images : onload(img)) /\ EditorOnly
  \/ EditorOpen /\ MayDraw /\ (\E p \in CanvasPoints : onMouseDown(p)) /\ EditorOnly
  \/ EditorOpen /\ MayExtend /\ (\E p \in CanvasPoints : onMouseMove(p)) /\ EditorOnly
  \/ EditorOpen /\ onMouseUp /\ EditorOnly
  \/ EditorOpen /\ (\E m \in {"draw", "crop"} : setMode(m)) /\ EditorOnly
  \/ EditorOpen /\ MayChooseBrush /\ (\E size \in BrushSizes : setBrushSize(size))
       /\ EditorOnly
  \/ EditorOpen /\ MayChooseBrush /\ (\E color \in BrushColors : setBrushColor(color))
       /\ EditorOnly
  \/ EditorOpen /\ clearStrokes /\ EditorOnly
  \/ EditorOpen /\ resetCrop /\ EditorOnly
  \/ EditorOpen /\ (\E id \in StrokeIds, note \in Notes : updateNote(id, note)) /\ EditorOnly
  \/ EditorOpen /\ (\E id \in StrokeIds : deleteStroke(id)) /\ EditorOnly
  \/ EditorOpen /\ applyEdits /\ EditorOnly
SpecEditor == Init /\ [][NextEditor]_vars

\* the key inputs and the validations they start: keys typed, pasted and
\* cleared while validations are in flight, each answered in any order
ValidationKeys == {"", "k", "sk-or-v1-key"}
ValidationAnswers ==
  {FetchRejects, Response(200, TextBody("{}")), Response(401, TextBody("denied"))}
KeysOnly == UNCHANGED <<storeVars, stylize, applied, editorVars, settingsVars>>
NextValidate ==
  \/ /\ Len(validations) < MaxValidations
     /\ \E f \in {"google", "openrouter"}, v \in ValidationKeys : EditKey(f, v)
     /\ validate(keys, keys')
     /\ KeysOnly
  \/ /\ \E i \in DOMAIN validations, r \in ValidationAnswers : ValidationSettles(i, r)
     /\ UNCHANGED appVars
     /\ KeysOnly
SpecValidate == Init /\ [][NextValidate]_vars

\* the App: user events, file reads and network answers in any order
NextApp ==
  \/ (\E f \in AppFiles : handleFileSelect(f)) /\ AppOnly
  \/ Len(history) < MaxHistory /\ (\E t \in THEMES : ClickTheme(t)) /\ AppOnly
  \/ (\E t \in {"", "Retro "} : TypeCustomTheme(t)) /\ AppOnly
  \/ Len(history) < MaxHistory /\ handleCustomThemeSubmit /\ AppOnly
  \/ (\E g \in Generating : FileRead(g)) /\ AppOnly
  \/ (\E g \in Generating : FileReadFailed(g)) /\ AppOnly
  \/ (\E g \in Generating : \E r \in AppOutcomesFor(g) : ProviderAnswers(g, r)) /\ AppOnly
  \/ (\E t \in {"input", "output"} : openEditorFor(t)) /\ AppOnly
  \/ EditorClose /\ AppOnly
  \/ (\E u \in EditorUrls : EditorApplyInput(u)) /\ AppOnly
  \/ (\E u \in applying : EditorApplyInputDone(u)) /\ AppOnly
  \/ (\E u \in EditorUrls : EditorApplyOutput(u)) /\ AppOnly
  \/ (\E f \in {"google", "openrouter"}, v \in {"", "k"} : EditKey(f, v)) /\ AppOnly
  \/ onResetUsage /\ AppOnly
  \/ (\E p \in Providers : ChooseProvider(p))
       /\ UNCHANGED <<inMemoryKeys, inMemoryApp, calls, lastSave, tampered, stylize,
                      applied, editorVars, validVars, settingsVars>>
SpecApp == Init /\ [][NextApp]_vars

\* the result panel: files selected, generations that succeed or fail and the
\* editor opened, closed and applied, in any order
NextResult ==
  \/ (\E f \in Files : handleFileSelect(f)) /\ AppOnly
  \/ Len(history) < MaxGenerated /\ (\E t \in THEMES : ClickTheme(t)) /\ AppOnly
  \/ (\E g \in Generating : FileRead(g)) /\ AppOnly
  \/ (\E g \in Generating : FileReadFailed(g)) /\ AppOnly
  \/ (\E g \in Generating : \E r \in GenOutcomesFor(g) : ProviderAnswers(g, r)) /\ AppOnly
  \/ (\E t \in {"input", "output"} : openEditorFor(t)) /\ AppOnly
  \/ EditorClose /\ AppOnly
  \/ (\E u \in EditorUrls : EditorApplyInput(u)) /\ AppOnly
  \/ (\E u \in applying : EditorApplyInputDone(u)) /\ AppOnly
  \/ (\E u \in EditorUrls : EditorApplyOutput(u)) /\ AppOnly
  \/ EditKey("google", "k") /\ AppOnly
SpecResult == Init /\ [][NextResult]_vars

\* the persist effect alone: the passphrase typed and retyped, history and
\* usage changed from the tabs behind the dialog, and the saveAppData calls
\* the effect starts completing in any order.  History holds one generation
\* at the start, so that the data saved changes.
PersistPassphrases == {"", "p1", "p2"}
PersistHistory ==
  <<[imageUrl |-> [url |-> "data", header |-> "data:image/png;base64", data |-> "d"],
     theme |-> "Anime"]>>
InitPersist ==
  /\ InitStore /\ InitClient /\ InitUsage /\ InitSettings /\ InitEditor
  /\ InitValid
  /\ InitAppWithHistory(PersistHistory)
NextPersist ==
  \/ openSettings /\ StoreQuiet /\ UNCHANGED <<stylize, appVars, applied, editorVars, validVars>>
  \/ onClose /\ StoreQuiet /\ UNCHANGED <<stylize, appVars, applied, editorVars, validVars>>
  \/ (\E p \in PersistPassphrases : setPassphrase(p))
       /\ UNCHANGED <<stylize, applied, editorVars, validVars>>
  \/ settingsOpen /\ onResetUsage /\ Rendered(TRUE)
  \/ ~settingsOpen /\ Len(history) > 0 /\ deleteHistoryItem(0) /\ Rendered(TRUE)
  \/ ~settingsOpen /\ clearHistory /\ Rendered(TRUE)
  \/ (\E c \in Suspended : SaveAppDataWrite(c))
       /\ UNCHANGED <<stylize, appVars, applied, editorVars, validVars, settingsVars>>
SpecPersist == InitPersist /\ [][NextPersist]_vars

\* Save and Load in the Settings dialog, one at a time, Load also while the
\* call the persist effect has started is still suspended: Load finds a
\* slot missing, written under another passphrase, or written under the
\* passphrase typed
LoadFrame == UNCHANGED <<stylize, applied, editorVars, validVars>>
NextLoad ==
  \/ ~Due /\ openSettings /\ StoreQuiet /\ UNCHANGED appVars /\ LoadFrame
  \/ ~Due /\ onClose /\ StoreQuiet /\ UNCHANGED appVars /\ LoadFrame
  \/ ~Due /\ MayCall /\ (\E p \in PersistPassphrases : setPassphrase(p)) /\ LoadFrame
  \/ ~Due /\ MayHandle /\ onSave /\ LoadFrame
  \/ (\E h \in Handling : OnSaveKeysSaved(h)) /\ LoadFrame
  \/ (\E h \in Handling : OnSaveAppDataSaved(h)) /\ LoadFrame
  \/ ~Due /\ handlers = EmptyBag /\ onLoad /\ LoadFrame
  \/ (\E h \in Handling : OnLoadKeysLoaded(h)) /\ LoadFrame
  \/ (\E h \in Handling : OnLoadAppDataLoaded(h)) /\ LoadFrame
  \/ ~Due /\ (\E c \in Suspended : SaveKeysWrite(c) /\ Settles(c, JUndef))
       /\ UNCHANGED <<appVars, passphrase, settingsOpen>> /\ LoadFrame
  \/ ~Due /\ (\E c \in Suspended : SaveAppDataWrite(c) /\ Settles(c, JUndef))
       /\ UNCHANGED <<appVars, passphrase, settingsOpen>> /\ LoadFrame
  \/ ~Due /\ (\E c \in Suspended : LoadKeysFinish(c) /\ Settles(c, ret'.val))
       /\ UNCHANGED <<appVars, passphrase, settingsOpen>> /\ LoadFrame
  \/ ~Due /\ (\E c \in Suspended : LoadAppDataFinish(c) /\ Settles(c, ret'.val))
       /\ UNCHANGED <<appVars, passphrase, settingsOpen>> /\ LoadFrame
  \/ ~Due /\ settingsOpen /\ EditKey("google", "k") /\ Rendered(FALSE)
  \/ ~Due /\ MayCall /\ ~settingsOpen /\ Len(history) > 0 /\ clearHistory /\ Rendered(TRUE)
SpecLoad == InitPersist /\ [][NextLoad]_vars

(***************************************************************************)
(* The key store's properties.                                             *)
(***************************************************************************)
\* a load with a passphrase has just returned
LoadReturned == ret.fn \in {"loadKeys", "loadAppData"} /\ ret.pass # ""

\* C1: a loadKeys(p) that reads the slot after saveKeys(k, p) has completed,
\* with no other saveKeys completed in between, returns a value equal to k.
C1_KeysRoundTrip ==
  (/\ ret.fn = "loadKeys" /\ ret.pass # ""
   /\ ret.read.wrote.any /\ ret.read.wrote.pass = ret.pass)
  => (~ret.threw /\ SameKeys(ret.val, ret.read.wrote.data))

\* a round trip of keys with a property set to undefined, while another
\* saveKeys call is suspended
C1_Witness ==
  /\ ret.fn = "loadKeys" /\ ret.pass # ""
  /\ ret.read.wrote.any /\ ret.read.wrote.pass = ret.pass
  /\ "google" \in DOMAIN ret.read.wrote.data.o
  /\ Prop(ret.read.wrote.data, "google") = JUndef
  /\ ret.val.t = "object"
  /\ \E c \in Suspended : c.fn = "saveKeys"

\* the value a load returned is the value the save was given
ReturnedIsSaved ==
  /\ ret.read.wrote.any
  /\ IF ret.fn = "loadKeys"
     THEN SameKeys(ret.val, ret.read.wrote.data)
     ELSE ret.val = ret.read.wrote.data

\* the value a load returned is the value the save was given, with the empty
\* object in the place of a null or undefined application-data value
ReturnedIsStored ==
  /\ ret.read.wrote.any
  /\ IF ret.fn = "loadKeys"
     THEN SameKeys(ret.val, ret.read.wrote.data)
     ELSE ret.val = Nullish(ret.read.wrote.data, JObj(<<>>))

\* C2 as stated: a load with a passphrase never raises, returns null when
\* decryption cannot succeed, and returns nothing but null or the saved value.
C2_AsStated ==
  LoadReturned =>
    /\ ~ret.threw
    /\ ret.read.cannot => ret.val = JNull
    /\ ret.val # JNull => ReturnedIsSaved

\* C2, amended: ... nothing but null or the saved value, where a null or
\* undefined application-data value is saved as the empty object.
C2_LoadNullOrStored ==
  LoadReturned =>
    /\ ~ret.threw
    /\ ret.read.cannot => ret.val = JNull
    /\ ret.val # JNull => ReturnedIsStored

\* a load returned null for entries changed from outside
C2_Witness ==
  /\ LoadReturned
  /\ ret.read.cannot
  /\ ret.val = JNull
  /\ \/ ret.fn = "loadKeys" /\ tampered.keys
         /\ storage[STORAGE_KEYS.encrypted].k = "b64"
         /\ storage[STORAGE_KEYS.encrypted].v.tag = "bad"
     \/ ret.fn = "loadAppData" /\ tampered.app
         /\ storage[STORAGE_KEYS.appSalt].k = "garbage"

\* the three entries are absent, or present as one save call wrote them
SlotWhole(enc, iv, salt) ==
  \/ storage[enc] = Absent /\ storage[iv] = Absent /\ storage[salt] = Absent
  \/ /\ storage[enc].k = "b64" /\ storage[iv].k = "b64" /\ storage[salt].k = "b64"
     /\ storage[enc].v.tag = "ok"
     /\ storage[enc].v.iv = storage[iv].v
     /\ storage[enc].v.key.salt = storage[salt].v
     /\ storage[iv].v = IvBytes(storage[salt].v.n)
     /\ storage[salt].v = SaltBytes(storage[salt].v.n)

C4_PlainSave ==
  [][/\ (ret'.fn = "saveKeys" /\ ret'.pass = "") => SlotEmpty(KeySlot)'
     /\ (ret'.fn = "saveAppData" /\ ret'.pass = "") => SlotEmpty(AppSlot)'
     /\ (ret.fn = "saveKeys" /\ ret.pass = "" /\ LoadKeysPlain)
          => ret'.val = ret.data
     /\ (ret.fn = "saveAppData" /\ ret.pass = "" /\ LoadAppDataPlain)
          => ret'.val = ret.data]_vars

\* loadKeys() has returned the keys of the saveKeys(k) before it, ...
C4_Witness ==
  /\ ret.fn = "loadKeys" /\ ret.pass = "" /\ ret.val.t = "object"
  /\ lastSave.keys.any /\ lastSave.keys.pass = ""
  /\ SlotEmpty(KeySlot)
  /\ \E c \in Suspended : c.fn = "saveKeys"

\* a step of saveKeys or loadKeys
KeysStep == KeysBegin(StoreKeys, StorePassphrases) \/ KeysSettle

\* a step of saveAppData or loadAppData
AppDataStep == AppDataBegin(StoreAppData, StorePassphrases) \/ AppDataSettle

\* a step leaves the application slot, or the credential slot, alone
AppSlotUntouched ==
  /\ \A n \in AppSlot \cup {STORAGE_KEYS.provider} : storage'[n] = storage[n]
  /\ inMemoryApp' = inMemoryApp
KeySlotUntouched ==
  /\ \A n \in KeySlot \cup {STORAGE_KEYS.provider} : storage'[n] = storage[n]
  /\ inMemoryKeys' = inMemoryKeys

\* C5: saveKeys and loadKeys leave the application slot's entries, the
\* in-memory application data and the provider selection unchanged, and
\* saveAppData and loadAppData leave the credential slot's entries, the
\* in-memory keys and the provider selection unchanged: every step leaves
\* them unchanged or is no step of those operations.
C5_SlotsIndependent ==
  [][/\ AppSlotUntouched \/ ~KeysStep
     /\ KeySlotUntouched \/ ~AppDataStep]_vars

\* saveKeys has just written its slot beside a written application slot, a
\* set provider selection and cached application data
C5_Witness ==
  /\ ret.fn = "saveKeys" /\ ret.pass # ""
  /\ storage[STORAGE_KEYS.encrypted].k = "b64"
  /\ storage[STORAGE_KEYS.appEnc].k = "b64"
  /\ storage[STORAGE_KEYS.provider] # Absent
  /\ inMemoryApp # JNull

(***************************************************************************)
(* The provider clients' properties.                                       *)
(***************************************************************************)
\* a call of a provider client has been made
Called == stylize.impl # "none"
OpenRouterCall == stylize.impl \in {"simple", "fallback"}

\* C6: a call of a provider client (Gemini's stylizeImage, either
\* stylizeImageOpenRouter) with an empty credential fails with the client's
\* missing-key error and issues no request.
C6_MissingKey ==
  (Called /\ stylize.apiKey = "") =>
    /\ stylize.outcome =
         Threw(IF stylize.impl = "gemini" THEN MissingGeminiKey
               ELSE MissingOpenRouterKey)
    /\ stylize.requests = <<>>

\* the missing key is reported for image data that cannot be decoded, too
C6_Witness ==
  /\ stylize.impl = "simple" /\ stylize.apiKey = ""
  /\ ~atobOk(stylize.base64ImageData)
  /\ stylize.outcome.kind = "threw"

\* the error e is the request-failed error with the status and the body text
\* of the response r
Rejected(e, r) ==
  /\ e.name = "Error"
  /\ "status" \in DOMAIN e.message
  /\ e.message.text \in {"OpenRouter request failed:", "OpenRouter request failed (json):"}
  /\ e.message.status = r.status
  /\ e.message.body = TextOrEmpty(r)

\* C7 as stated: a stylizeImageOpenRouter call one of whose requests was
\* answered with a non-success status fails with the request-failed error
\* that carries that response's status and body text.
C7_AsStated ==
  (OpenRouterCall /\ ~Outstanding(stylize)) =>
    \A i \in DOMAIN stylize.answers :
      LET r == stylize.answers[i]
      IN (r.net = "response" /\ ~ok(r)) =>
           /\ stylize.outcome.kind = "threw"
           /\ Rejected(stylize.outcome.e, r)

\* the requests a settled call with a credential has issued: one, or one or
\* two for the client with the fallback request
RequestsOf(call, decodable) ==
  CASE call.impl = "fallback" -> Len(call.requests) \in {1, 2}
    [] call.impl = "simple" -> Len(call.requests) = IF decodable THEN 1 ELSE 0
    [] OTHER -> Len(call.requests) = 1

\* at most two requests, two of the client with the fallback request only,
\* and the second one after the first has completed
RequestsInTurn ==
  /\ Len(stylize.requests) <= 2
  /\ Len(stylize.requests) = 2 =>
       stylize.impl = "fallback" /\ stylize.requests[1].completed
  /\ Outstanding(stylize) => ~stylize.requests[Len(stylize.requests)].completed

\* C8 as stated: every call with a non-empty credential issues exactly one
\* request, the client with the fallback request one or two.
C8_AsStated ==
  /\ RequestsInTurn
  /\ (Called /\ stylize.apiKey # "" /\ ~Outstanding(stylize)) =>
       RequestsOf(stylize, TRUE)

\* C8, amended: every call with a non-empty credential and image data that
\* is a base64 string issues exactly one request, the client with the
\* fallback request one or two whatever the image data; the single-request
\* client issues none for image data that is not a base64 string; no call
\* issues more than two, and the second is issued after the first completed.
C8_Requests ==
  /\ RequestsInTurn
  /\ (Called /\ stylize.apiKey # "" /\ ~Outstanding(stylize)) =>
       RequestsOf(stylize, atobOk(stylize.base64ImageData))

\* the client with the fallback request has settled after two requests
C8_Witness ==
  /\ stylize.impl = "fallback" /\ stylize.apiKey # ""
  /\ ~Outstanding(stylize)
  /\ Len(stylize.requests) = 2
  /\ stylize.requests[1].format = "multipart"
  /\ stylize.requests[2].format = "json"

\* C9 as stated: for a success response whose body is parsed the call returns
\* the first of data[0].b64_json, images[0].b64_json and output that is
\* present and non-empty, and fails with the no-image error when none is.
C9_AsStated ==
  (OpenRouterCall /\ ~Outstanding(stylize)) =>
    \A i \in DOMAIN stylize.answers :
      LET r == stylize.answers[i]
      IN (r.net = "response" /\ ok(r) /\ json(r).ok) =>
           IF Candidate(json(r).v).found
           THEN stylize.outcome = Returned(Candidate(json(r).v).v)
           ELSE /\ stylize.outcome.kind = "threw"
                /\ stylize.outcome.e.message.text \in
                     {"OpenRouter did not return an image. Please try a different prompt or image.",
                      "OpenRouter did not return an image (json). Please try a different prompt or image."}

(***************************************************************************)
(* The App coordinator's properties.                                       *)
(***************************************************************************)
\* the requests of the generations that the network has not answered yet
OpenRequests(g) == {i \in DOMAIN g.call.requests : ~g.call.requests[i].completed}

\* C10: at no time are two generations outstanding, and while one is, from
\* its start until it has settled, isLoading disables every submit control;
\* so at most one provider request is outstanding.
C10_OneGeneration ==
  /\ BagCardinality(generations) <= 1
  /\ generations # EmptyBag => (isLoading /\ ~CanSubmit)
  /\ \A g \in Generating : Cardinality(OpenRequests(g)) <= 1

\* a generation waits for the answer to its fallback request while another
\* file has been selected, a key edited and the editor opened
C10_Witness ==
  /\ \E g \in Generating :
       /\ g.pc = "provider" /\ Len(g.call.requests) = 2
       /\ originalImageFile # g.file
       /\ keys.openrouter # g.apiKey
  /\ editorOpen

\* C15: estimateTokensFromText returns the ceiling of the text's length divided
\* by four, the least whole number of four-character groups that hold the
\* text, and never a negative number: 0 for the empty text, 1 for a text of
\* four characters, 2 for a text of five.
Estimated == applied.fn = "estimateTokensFromText"
C15_Ceiling ==
  Estimated =>
    /\ applied.out >= 0
    /\ 4 * applied.out >= applied.len
    /\ 4 * (applied.out - 1) < applied.len
    /\ applied.len = 0 => applied.out = 0
    /\ applied.len = 4 => applied.out = 1
    /\ applied.len = 5 => applied.out = 2
C15_Witness == Estimated /\ applied.len = 5 /\ applied.out = 2

\* C16: for all non-negative integer token counts computeCostUSD returns
\* tokensIn x 0.30 / 1,000,000 + tokensOut x 2.50 / 1,000,000 rounded to six
\* decimal places (a sum halfway between two millionths to the larger, as
\* toFixed rounds); a million input tokens cost 0.30, a million output
\* tokens 2.50.  The cost is counted in millionths, the exact sum in
\* hundredths of a millionth.
Computed == applied.fn = "computeCostUSD"
ExactHundredths == 30 * applied.tokensIn + 250 * applied.tokensOut
C16_AsStated ==
  Computed =>
    /\ 100 * applied.out - ExactHundredths \in -49 .. 50
    /\ applied.tokensIn = 1000000 /\ applied.tokensOut = 0 => applied.out = 300000
    /\ applied.tokensIn = 0 /\ applied.tokensOut = 1000000 => applied.out = 2500000

\* C17: the result of two additions to a usage record does not depend on
\* their order, and its costUSD is computeCostUSD of the summed token totals,
\* whatever costUSD the record carried.
Added == applied.fn = "addUsage"
C17_OrderAndCost ==
  Added =>
    /\ applied.first = applied.second
    /\ applied.first.tokensIn = applied.u.tokensIn + applied.a + applied.c
    /\ applied.first.tokensOut = applied.u.tokensOut + applied.b + applied.d
    /\ applied.first.costUSD
         = computeCostUSD(applied.first.tokensIn, applied.first.tokensOut)
C17_Witness ==
  /\ Added /\ applied.u.costUSD = 999
  /\ <<applied.a, applied.b>> # <<applied.c, applied.d>>
  /\ applied.first.costUSD # applied.u.costUSD
  /\ applied.first.costUSD > 0

\* C13: deleteHistoryItem(i) on a history of n entries with 0 <= i < n yields
\* the history of n - 1 entries that lacks exactly the entry at index i, the
\* others in their order; with i outside that range the history is
\* unchanged; clearHistory yields the empty history.
Without(h, i) == SubSeq(h, 1, i) \o SubSeq(h, i + 2, Len(h))
C13_DeleteAndClear ==
  [][/\ \A i \in -1 .. MaxEntries + 1 :
          deleteHistoryItem(i) =>
            IF 0 <= i /\ i < Len(history)
            THEN /\ Len(history') = Len(history) - 1
                 /\ history' = Without(history, i)
            ELSE history' = history
     /\ clearHistory => history' = <<>>]_vars
C13_Witness ==
  /\ Len(history) = MaxEntries - 2
  /\ history[1] # history[2]

\* the step settles generation g: its file cannot be read, its key is
\* missing, or the network's answer r makes its provider call throw or return
Throws(g, r) ==
  /\ g.pc = "provider" /\ r \in GenOutcomesFor(g)
  /\ LET call == ResumeCall(g.call, r)
     IN ~Outstanding(call) /\ call.outcome.kind = "threw"
Returns(g, r) ==
  /\ g.pc = "provider" /\ r \in GenOutcomesFor(g)
  /\ LET call == ResumeCall(g.call, r)
     IN ~Outstanding(call) /\ call.outcome.kind = "returned"
Fails(g) ==
  \/ FileReadFailed(g)
  \/ g.pc = "fileToBase64" /\ g.apiKey = "" /\ FileRead(g)
  \/ \E r \in GenFetchOutcomes \cup GenSdkOutcomes :
       Throws(g, r) /\ ProviderAnswers(g, r)
Succeeds(g) ==
  \E r \in GenFetchOutcomes \cup GenSdkOutcomes : Returns(g, r) /\ ProviderAnswers(g, r)
ResultOf(g, r) ==
  [url |-> "data", header |-> "data:image/png;base64",
   data |-> ResumeCall(g.call, r).outcome.v]

\* C11: when a generation fails, for whatever reason (missing credential, file
\* read error, request rejected by the provider, no image returned, network
\* error), the error is caught in generateStyledImage: the step that ends the
\* generation leaves error a non-empty display text and isLoading false,
\* leaves history and usage as they were, and a new generation can be started
\* at once.
C11_FailureCaught ==
  [][\A g \in Generating :
       \/ /\ error' # JNull /\ error'.text # ""
          /\ ~isLoading'
          /\ history' = history /\ usage' = usage
          /\ CanSubmit' /\ generations' = EmptyBag
       \/ ~Fails(g)]_vars
C11_Witness ==
  /\ error = Message("OpenRouter did not return an image (json). Please try a different prompt or image.")
  /\ ~isLoading /\ Len(history) = 1 /\ usage.tokensIn > 0

\* C12: starting from the empty history, with no delete, clear or load, every
\* successful generation puts one entry holding its result image and its
\* theme in front of the history, and nothing else changes the history, so
\* after N successful generations the history has N entries, the most recent
\* first; a failed generation adds no entry.
C12_HistoryGrows ==
  [][/\ \A g \in Generating :
         \A r \in GenFetchOutcomes \cup GenSdkOutcomes :
           \/ ~(Returns(g, r) /\ ProviderAnswers(g, r))
           \/ history' = <<[imageUrl |-> ResultOf(g, r), theme |-> g.theme]>> \o history
     /\ \/ history' = history
        \/ \E g \in Generating : Succeeds(g)
     /\ \A g \in Generating : (history' = history) \/ ~Fails(g)]_vars
C12_Witness ==
  /\ Len(history) = 2 /\ history[1].theme = "Retro" /\ history[2].theme = "Anime"
  /\ generatedImageUrl = history[1].imageUrl

\* C18: each successful generation adds estimateTokensFromText(prompt) to
\* tokensIn and nothing to tokensOut, once; a failed generation adds nothing;
\* no step but a successful generation and Reset Usage changes the usage,
\* and without a Load tokensOut stays 0.
C18_UsagePerGeneration ==
  [][/\ \A g \in Generating :
         \/ /\ usage'.tokensIn
                 = usage.tokensIn + estimateTokensFromText(PromptLen(g.theme))
            /\ usage'.tokensOut = usage.tokensOut
         \/ ~Succeeds(g)
     /\ \A g \in Generating : (usage' = usage) \/ ~Fails(g)
     /\ \/ usage' = usage
        \/ \E g \in Generating : Succeeds(g)
        \/ onResetUsage
     /\ usage'.tokensOut = 0]_vars
C18_Witness ==
  /\ Len(history) = 2 /\ usage.tokensOut = 0
  /\ usage.tokensIn = 2 * estimateTokensFromText(PromptLen("Anime"))
  /\ generations = EmptyBag

\* the usage does not go down in the step; the step is Reset Usage; the step
\* completes a Load
NotLess ==
  /\ usage'.tokensIn >= usage.tokensIn
  /\ usage'.tokensOut >= usage.tokensOut
ResetStep == onResetUsage /\ UNCHANGED settingsVars
LoadStep == \E h \in Handling : OnLoadAppDataLoaded(h)

\* C14 as stated: across every transition other than Reset Usage (a
\* successful or failed generation, Save, Load, deleting or clearing the
\* history, a change of the passphrase) tokensIn and tokensOut never
\* decrease.
C14_AsStated == [][NotLess \/ ResetStep]_vars

\* C14 as the code has it: tokensIn and tokensOut never decrease across a
\* transition other than Reset Usage and the completion of a Load, which
\* puts the loaded usage record in place of the current one.
C14_NeverDecreases == [][NotLess \/ ResetStep \/ LoadStep]_vars
C14_Witness ==
  /\ usage.tokensIn > 0 /\ history = <<>>
  /\ passphrase # "" /\ inMemoryApp # JNull
  /\ Prop(inMemoryApp, "usage") = JRaw(usage)

\* C19: when no crop rectangle is set, the image applyEdits exports has the
\* width and the height of the original image, whatever the size of the
\* original, the size it is rendered at and the strokes drawn on it.
C19_NoCropKeepsSize ==
  (exported # JNull /\ exported.cropSrc = JNull)
    => /\ exported.width = imgRef.width
       /\ exported.height = imgRef.height

C19_Witness ==
  /\ exported # JNull
  /\ exported.cropSrc = JNull
  /\ renderSize.w # imgRef.width
  /\ Len(exported.strokes) > 0

\* C20: the editor is in exactly one of draw mode and crop mode at any time;
\* a switch of the mode leaves the committed strokes and the crop rectangle as
\* they are; a mouse event in draw mode never changes the crop rectangle and
\* a mouse event in crop mode never changes the strokes.
MouseEvent ==
  \/ \E p \in CanvasPoints : onMouseDown(p)
  \/ \E p \in CanvasPoints : onMouseMove(p)
  \/ onMouseUp

C20_ModesApart ==
  /\ mode \in {"draw", "crop"}
  /\ [][/\ mode' \in {"draw", "crop"}
        /\ (mode' = mode) \/ (strokes' = strokes /\ crop' = crop)
        /\ (crop' = crop) \/ ~(mode = "draw" /\ MouseEvent)
        /\ (strokes' = strokes) \/ ~(mode = "crop" /\ MouseEvent)]_vars

C20_Witness ==
  /\ mode = "draw"
  /\ Len(strokes) > 0
  /\ crop # JNull
  /\ crop.w > 1
  /\ activeStroke # JNull

\* C21: in every state of the editor after the image has loaded and the
\* component has rendered again, the memoized scale is the render size over
\* the size of the original image (sx = renderSize.w / width, sy =
\* renderSize.h / height) and invScale is its reciprocal, for every image,
\* those rendered at the initial 512 x 512 included.
C21_AsStated ==
  imgRef # JNull
    => /\ scale.sx.num * imgRef.width = renderSize.w * scale.sx.den
       /\ scale.sy.num * imgRef.height = renderSize.h * scale.sy.den
       /\ invScale.ix.num * scale.sx.num = invScale.ix.den * scale.sx.den
       /\ invScale.iy.num * scale.sy.num = invScale.iy.den * scale.sy.den

\* C30: every stroke in the list when applyEdits exports is drawn into the
\* exported image together with its non-empty note, a stroke made by a click
\* without movement included (each mouse-down to mouse-up sequence in draw
\* mode having appended one stroke to the end of the list).
C30_AsStated ==
  exported # JNull
    => \A i \in 1 .. Len(strokes) :
         \E j \in 1 .. Len(exported.strokes) :
           /\ exported.strokes[j].id = strokes[i].id
           /\ exported.strokes[j].note = strokes[i].note

\* C22: the client with the fallback issues the JSON request only when the
\* multipart request failed at network level or was answered with status
\* 400, 405 or 415; a multipart answer with another non-success status makes
\* the call fail with that status, a success answer without an image makes it
\* fail with the no-image error, both without a second request.
FallsThrough(r) == r.net = "rejects" \/ r.status \in {400, 405, 415}

C22_AsStated ==
  stylize.impl = "fallback" =>
    /\ \A i \in DOMAIN stylize.requests :
         stylize.requests[i].format = "json" =>
           /\ i = 2
           /\ FallsThrough(stylize.answers[1])
    /\ (Len(stylize.answers) > 0 /\ ~FallsThrough(stylize.answers[1])) =>
         LET r == stylize.answers[1]
         IN /\ Len(stylize.requests) = 1
            /\ ~ok(r) =>
                 /\ stylize.outcome.kind = "threw"
                 /\ Rejected(stylize.outcome.e, r)
            /\ (ok(r) /\ json(r).ok /\ ~Candidate(json(r).v).found) =>
                 /\ stylize.outcome.kind = "threw"
                 /\ stylize.outcome.e.message.text =
                      "OpenRouter did not return an image. Please try a different prompt or image."

\* C23: every generation that was started, its request completing or failing,
\* leads to a state with isLoading false and activeTheme null, on the success
\* path and on every error path; and isLoading is true only while a
\* generation is in progress.
C23_LoadingEnds ==
  /\ [](isLoading => generations # EmptyBag)
  /\ (generations # EmptyBag) ~> (~isLoading /\ activeTheme = JNull)

C23_Witness ==
  /\ ~isLoading
  /\ activeTheme = JNull
  /\ error # JNull
  /\ history # <<>>

\* C28: in every state of the App error and generatedImageUrl are not both
\* non-null, whatever files are selected, generations succeed or fail and
\* edits are applied: the result panel never holds an error message and a
\* generated image at the same time.
C28_AsStated == ~(error # JNull /\ generatedImageUrl # JNull)

\* C25: a validation result for an earlier value of the OpenRouter key never
\* overwrites openrouterValid after the key changed: a result is written only
\* by the validation of the current key that was started last, and once all
\* validations have settled openrouterValid is null for an empty key and
\* otherwise the result of validating the current key.
AllSettled == \A i \in DOMAIN validations : validations[i].result # Pending
Latest == validations[Len(validations)]

C25_LatestKeyWins ==
  /\ [](AllSettled =>
          IF keys.openrouter = "" THEN openrouterValid = JNull
          ELSE /\ validations # <<>>
               /\ Latest.key = keys.openrouter
               /\ openrouterValid = Latest.result)
  /\ [][(openrouterValid' = openrouterValid) \/ (openrouterValid' = JNull)
        \/ /\ keys' = keys
           /\ Latest.key = keys.openrouter
           /\ Latest.result = Pending
           /\ openrouterValid' = Latest.result']_vars

C25_Witness ==
  /\ AllSettled
  /\ Len(validations) > 1
  /\ validations[1].cancelled
  /\ validations[1].key # keys.openrouter
  /\ keys.openrouter # ""
  /\ validations[1].result # Latest.result

\* C26: when saveAppData calls started by the persist effect overlap, then
\* once all of them have completed the application slot decrypts, under the
\* passphrase of the call started last, to the data of that call.  The
\* effect runs on every change, so the call started last carries the current
\* passphrase, history and usage.
C26_AsStated ==
  (calls = EmptyBag /\ passphrase # "")
  => /\ \A n \in {STORAGE_KEYS.appEnc, STORAGE_KEYS.appIv, STORAGE_KEYS.appSalt} :
          storage[n] # Absent
     /\ Decoded(passphrase, storage[STORAGE_KEYS.appEnc],
                storage[STORAGE_KEYS.appIv], storage[STORAGE_KEYS.appSalt])
          = JSONparse(JSONstringify(AppObject(history, usage)))

\* a load with a passphrase returns null in this step
NullLoad ==
  /\ ret'.fn \in {"loadKeys", "loadAppData"} /\ ret'.pass # ""
  /\ ~ret'.threw /\ ret'.val = JNull
\* Load goes on in this step after the call it awaited returned null
LoadGoesOnAfterNull(h, awaited) ==
  /\ h \in Handling /\ h.fn = "onLoad" /\ h.pc = awaited /\ h.ready
  /\ h.pass # "" /\ h.result = JNull
  /\ h \notin BagToSet(handlers')

\* C27: a loadKeys or loadAppData call with a passphrase that returns null
\* changes neither module variable nor any localStorage entry; Load, going
\* on after loadKeys returned null, leaves keys unchanged, and going on
\* after loadAppData returned null, leaves history and usage unchanged; a
\* load call that changes a module variable has a passphrase and returns
\* the value it has cached, which is not null.
C27_NullLoadChangesNothing ==
  [][/\ NullLoad =>
          /\ storage' = storage
          /\ inMemoryKeys' = inMemoryKeys /\ inMemoryApp' = inMemoryApp
     /\ \A h \in Handling :
          /\ LoadGoesOnAfterNull(h, "loadKeys") => keys' = keys
          /\ LoadGoesOnAfterNull(h, "loadAppData")
               => (history' = history /\ usage' = usage)
     /\ (ret'.fn = "loadKeys" /\ inMemoryKeys' # inMemoryKeys)
          => (ret'.pass # "" /\ ret'.val # JNull /\ inMemoryKeys' = ret'.val)
     /\ (ret'.fn = "loadAppData" /\ inMemoryApp' # inMemoryApp)
          => (ret'.pass # "" /\ ret'.val # JNull /\ inMemoryApp' = ret'.val)
    ]_vars

\* Load awaits a loadAppData call that has failed to decrypt entries written
\* under another passphrase, with application data cached from a save
C27_Witness ==
  /\ ret.fn = "loadAppData" /\ ret.pass # "" /\ ret.val = JNull
  /\ \A n \in AppSlot : storage[n].k = "b64"
  /\ lastSave.app.any /\ lastSave.app.pass \notin {"", ret.pass}
  /\ inMemoryApp # JNull
  /\ \E h \in Handling :
       /\ h.fn = "onLoad" /\ h.pc = "loadAppData" /\ h.ready
       /\ h.result = JNull /\ h.pass = ret.pass

\* C27 as stated, for the Load action as a whole: when its loadKeys call
\* returned null (an entry of the credential slot is missing, and no
\* saveKeys call runs during Load), Load leaves history and usage unchanged.
C27_AsStated ==
  [][\A h \in Handling :
       (/\ h.fn = "onLoad" /\ h.pc = "loadAppData" /\ h.ready /\ h.pass # ""
        /\ \E n \in KeySlot : Falsy(storage[n])
        /\ h \notin BagToSet(handlers'))
       => (history' = history /\ usage' = usage)]_vars

\* loadAppData(p) has returned what it read from a slot that saveAppData(d, p)
\* wrote, no other save having completed in between
LoadedOwnSave ==
  /\ ret.fn = "loadAppData" /\ ret.pass # ""
  /\ ret.read.wrote.any /\ ret.read.wrote.pass = ret.pass
\* this step is loadAppData() right after saveAppData(d, p) completed
PlainLoadAfterSave ==
  /\ ret.fn = "saveAppData" /\ ret.pass # ""
  /\ ret'.fn = "loadAppData" /\ ret'.pass = ""

\* C29 as stated: after saveAppData(d, p) has completed, loadAppData(p) and
\* loadAppData() both return a value equal to d, for null and undefined too.
C29_AsStated ==
  /\ [](LoadedOwnSave => (~ret.threw /\ ret.val = ret.read.wrote.data))
  /\ [][PlainLoadAfterSave => ret'.val = ret.data]_vars

\* C29, amended: after saveAppData(d, p) has completed, loadAppData(p)
\* returns a value equal to d, or the empty object when d is null or
\* undefined; loadAppData() returns d itself, and after a loadAppData(p) that
\* did not return null it returns what that load returned.
C29_RoundTrip ==
  /\ [](LoadedOwnSave
          => (~ret.threw /\ ret.val = Nullish(ret.read.wrote.data, JObj(<<>>))))
  /\ [][/\ PlainLoadAfterSave => ret'.val = ret.data
        /\ (/\ ret.fn = "loadAppData" /\ ret.pass # "" /\ ret.val # JNull
            /\ ret'.fn = "loadAppData" /\ ret'.pass = "")
           => ret'.val = ret.val]_vars

\* loadAppData() has returned the empty object that loadAppData(p) cached
\* after saveAppData(null, p)
C29_Witness ==
  /\ ret.fn = "loadAppData" /\ ret.pass = "" /\ ret.val = JObj(<<>>)
  /\ lastSave.app.any /\ lastSave.app.pass # "" /\ lastSave.app.data = JNull
  /\ inMemoryApp = JObj(<<>>)

\* C24: a generation whose result becomes the displayed image was started
\* from the original image that is selected when the result is displayed:
\* every step in which a generation succeeds (its result is set as
\* generatedImageUrl and put in history) is the step of a generation whose
\* file is the selected file.
C24_AsStated ==
  [][\A g \in Generating :
       (/\ generations' = EndGeneration(g)
        /\ Len(history') > Len(history)
        /\ generatedImageUrl' # JNull)
       => g.file = originalImageFile']_vars
====
